---- MODULE Spec2Model ----
(***************************************************************************)
(* A model of markdown-to-enex: the markdown -> HTML -> ENML pipeline, the *)
(* resource resolver and the batch conversion loop of __main__.main.       *)
(*                                                                         *)
(* Representation.  A Python str is a TLA+ string and the text operators   *)
(* below work on its characters as the code's str methods and regular      *)
(* expressions do.  File contents (bytes) are sequences of byte values.    *)
(***************************************************************************)
EXTENDS Integers, Sequences, FiniteSets, TLC

VARIABLES
    fs,               \* the file system: location -> bytes (NoFile when absent)
    cfg,              \* the configuration dictionary (the options the model reads)
    pc,               \* position of the running program
    resource_refs,    \* the set process_resources was called with
    resource_map,     \* ResourceHandler.resource_map: reference -> record
    reference_map,    \* ResourceHandler.reference_map: filename -> reference
    resource_list,    \* the list process_resources returned (insertion order)
    content,          \* the text handed to the text operation under study
    result,           \* the text it returned
    image_registry,   \* MarkdownProcessor.image_registry: list of ImageRef
    image_references, \* MarkdownProcessor.image_references: set of paths
    scan_result,      \* scan_result['notes'] of main, each with its file
    note_count,       \* main: notes the batch loop has gone through
    processed_notes,  \* main: list of (note, resources, note_info)
    all_resources,    \* main: the reference keys of all notes
    final_notes,      \* main: the notes handed to generate_output
    output_files,     \* the ENEX files written: group name -> titles of its notes
    exit_code         \* "running", "returned" (main returned) or "exit 1"

resVars == <<resource_refs, resource_map, reference_map, resource_list>>

textVars == <<content, result, image_registry, image_references>>

mainVars == <<scan_result, note_count, processed_notes, all_resources, final_notes,
              output_files, exit_code>>

vars == <<fs, cfg, pc, resVars, textVars, mainVars>>

(***************************************************************************)
(* Generic helpers: sequences, dicts and str methods                       *)
(***************************************************************************)
EmptyMap == <<>>

Range(s) == {s[i] : i \in 1..Len(s)}

\* all orders in which a finite set can be iterated (Python set iteration
\* order is unspecified)
Orders(S) ==
    {o \in [1..Cardinality(S) -> S] : \A i, j \in 1..Cardinality(S) : o[i] = o[j] => i = j}

SetMax(S) == CHOOSE x \in S : \A y \in S : x >= y

\* s[i] as a one-character str (1-based), "" outside the str
Ch(s, i) == IF i >= 1 /\ i <= Len(s) THEN SubSeq(s, i, i) ELSE ""

\* s[i:] with the model's 1-based index
From(s, i) == SubSeq(s, i, Len(s))

\* s[:i-1]
Before(s, i) == SubSeq(s, 1, i - 1)

\* s.startswith(lit, i-1)
StartsWithAt(s, i, lit) ==
    /\ i >= 1
    /\ i + Len(lit) - 1 <= Len(s)
    /\ SubSeq(s, i, i + Len(lit) - 1) = lit

StartsWith(s, lit) == StartsWithAt(s, 1, lit)

EndsWith(s, lit) == Len(lit) <= Len(s) /\ StartsWithAt(s, Len(s) - Len(lit) + 1, lit)

\* s.find(lit, i-1) + 1: the first occurrence of lit at or after i, 0 if none
Find(s, lit, i) ==
    LET hits == {j \in i..(Len(s) - Len(lit) + 1) : SubSeq(s, j, j + Len(lit) - 1) = lit}
    IN IF hits = {} THEN 0 ELSE CHOOSE j \in hits : \A k \in hits : j <= k

\* s.rfind(lit) + 1
RFind(s, lit) ==
    LET hits == {j \in 1..(Len(s) - Len(lit) + 1) : StartsWithAt(s, j, lit)}
    IN IF hits = {} THEN 0 ELSE SetMax(hits)

\* lit in s
Contains(s, lit) == Find(s, lit, 1) # 0

\* s.replace(old, new)
RECURSIVE Replace(_, _, _)
Replace(s, old, new) ==
    LET i == Find(s, old, 1)
    IN IF i = 0 THEN s
       ELSE Before(s, i) \o new \o Replace(From(s, i + Len(old)), old, new)

\* the character class [a-z0-9]
LowerAlnum ==
    { "a", "b", "c", "d", "e", "f", "g", "h", "i", "j", "k", "l", "m", "n", "o", "p", "q",
      "r", "s", "t", "u", "v", "w", "x", "y", "z",
      "0", "1", "2", "3", "4", "5", "6", "7", "8", "9" }

\* the character class [a-zA-Z0-9_-]
NameChars ==
    LowerAlnum \cup
    { "A", "B", "C", "D", "E", "F", "G", "H", "I", "J", "K", "L", "M", "N", "O", "P", "Q",
      "R", "S", "T", "U", "V", "W", "X", "Y", "Z", "_", "-" }

\* the end of the longest run of characters of the set chars starting at
\* i: the first index at or after i whose character is not one of them
RECURSIVE SkipWhile(_, _, _)
SkipWhile(s, i, chars) ==
    IF Ch(s, i) \in chars THEN SkipWhile(s, i + 1, chars) ELSE i

\* str.lower() of a str of ASCII characters
RECURSIVE Lower(_)
Lower(s) ==
    IF s = "" THEN ""
    ELSE (IF Contains("ABCDEFGHIJKLMNOPQRSTUVWXYZ", Ch(s, 1))
          THEN Ch("abcdefghijklmnopqrstuvwxyz", Find("ABCDEFGHIJKLMNOPQRSTUVWXYZ", Ch(s, 1), 1))
          ELSE Ch(s, 1)) \o Lower(From(s, 2))

\* re.sub(pattern, repl, s) for a pattern that matches no empty str: the
\* matches are taken from left to right without overlap.  ends[i] is the
\* index after the match that starts at i (0: no match starts at i),
\* repls[i] what replaces that match
ReSub(s, ends, repls) ==
    LET RECURSIVE Go(_)
        Go(from) ==
            LET starts == {i \in from..Len(s) : ends[i] # 0}
            IN IF starts = {} THEN From(s, from)
               ELSE LET i == CHOOSE k \in starts : \A l \in starts : k <= l
                    IN SubSeq(s, from, i - 1) \o repls[i] \o Go(ends[i])
    IN Go(1)

(***************************************************************************)
(* Paths (pathlib.Path)                                                    *)
(***************************************************************************)
\* Path(p).name: the last component (a trailing "/" is ignored)
RECURSIVE PathName(_)
PathName(p) ==
    IF p = "" THEN ""
    ELSE IF EndsWith(p, "/") THEN PathName(Before(p, Len(p)))
    ELSE From(p, RFind(p, "/") + 1)

\* Path(p).suffix: from the last "." of the name, unless the name starts or
\* ends with it (the modelled names are lower case, as .lower() leaves them)
PathSuffix(p) ==
    LET name == PathName(p)
        dot == RFind(name, ".")
    IN IF dot > 1 /\ dot < Len(name) THEN From(name, dot) ELSE ""

(***************************************************************************)
(* The file system.  A location is a directory root and a path below it:   *)
(* "src" is config["source_directory"], "cwd" the working directory, "abs" *)
(* the root directory.                                                     *)
(***************************************************************************)
NoFile == <<-1>>
NoLoc == [root |-> "none", path |-> ""]

Loc(root, path) == [root |-> root, path |-> path]

\* source_dir / ref and Path.cwd() / ref: an absolute ref replaces the root
JoinPath(root, ref) ==
    IF StartsWith(ref, "/") THEN Loc("abs", ref) ELSE Loc(root, ref)

\* Path.exists()
Exists(loc) == loc \in DOMAIN fs /\ fs[loc] # NoFile

\* The reference keys and the files of the modelled world
RefX == "x.png"
RefDX == "d/x.png"
RefH == "p.heic"
RefM == "m.png"

FsLocs == {Loc("src", RefX), Loc("src", RefDX), Loc("src", RefH), Loc("cwd", RefX)}

Bytes1 == <<1>>
Bytes2 == <<2>>
Bytes12 == <<1, 2>>

(***************************************************************************)
(* hashlib.md5 and base64                                                  *)
(***************************************************************************)
\* hashlib.md5(data).hexdigest(): a str of digits and letters determined by
\* the bytes hashed and by nothing else (collisions are not modelled)
RECURSIVE MD5(_)
MD5(data) ==
    IF data = <<>> THEN "md5"
    ELSE MD5(SubSeq(data, 1, Len(data) - 1)) \o "x" \o ToString(data[Len(data)])

B64Alphabet == "ABCDEFGHIJKLMNOPQRSTUVWXYZabcdefghijklmnopqrstuvwxyz0123456789+/"

B64Digits == [n \in 0..63 |-> Ch(B64Alphabet, n + 1)]

B64Digit(n) == B64Digits[n]

B64Value(c) == CHOOSE n \in 0..63 : B64Digits[n] = c

\* base64.b64encode(data).decode('utf-8')
RECURSIVE B64Encode(_)
B64Encode(data) ==
    IF data = <<>> THEN ""
    ELSE IF Len(data) = 1 THEN
        B64Digit(data[1] \div 4) \o B64Digit((data[1] % 4) * 16) \o "=="
    ELSE IF Len(data) = 2 THEN
        B64Digit(data[1] \div 4) \o B64Digit((data[1] % 4) * 16 + data[2] \div 16)
        \o B64Digit((data[2] % 16) * 4) \o "="
    ELSE
        B64Digit(data[1] \div 4) \o B64Digit((data[1] % 4) * 16 + data[2] \div 16)
        \o B64Digit((data[2] % 16) * 4 + data[3] \div 64) \o B64Digit(data[3] % 64)
        \o B64Encode(SubSeq(data, 4, Len(data)))

\* base64.b64decode(text)
RECURSIVE B64Decode(_)
B64Decode(text) ==
    IF Len(text) < 4 THEN <<>>
    ELSE LET v1 == B64Value(Ch(text, 1))
             v2 == B64Value(Ch(text, 2))
             v3 == B64Value(Ch(text, 3))
             v4 == B64Value(Ch(text, 4))
         IN IF Ch(text, 3) = "=" THEN <<v1 * 4 + v2 \div 16>>
            ELSE IF Ch(text, 4) = "="
                 THEN <<v1 * 4 + v2 \div 16, (v2 % 16) * 16 + v3 \div 4>>
            ELSE <<v1 * 4 + v2 \div 16, (v2 % 16) * 16 + v3 \div 4, (v3 % 4) * 64 + v4>>
                 \o B64Decode(From(text, 5))

(***************************************************************************)
(* resource_handler.py: ResourceHandler                                    *)
(***************************************************************************)
\* dict[key] = value
Put(map, key, value) ==
    [k \in DOMAIN map \cup {key} |-> IF k = key THEN value ELSE map[k]]

\* Path(ref), a path as given: a relative one is resolved against the
\* working directory, as Path.cwd() / ref is
DirectPath(ref) == JoinPath("cwd", ref)

\* the candidates with the bare filename tried before the working directory
FindResourceCandidates_FilenameBeforeCwd(ref) ==
    << JoinPath("src", ref),
       Loc("src", PathName(ref)),
       DirectPath(ref),
       JoinPath("cwd", ref) >>

\* ResourceHandler._find_resource_path: the candidates in the order tried
\* (source_directory is set: main exits without it)
FindResourceCandidates(ref) ==
    << JoinPath("src", ref),
       DirectPath(ref),
       JoinPath("cwd", ref),
       Loc("src", PathName(ref)) >>

\* the first candidate that exists, None (NoLoc) if none does
FirstExisting(c) ==
    IF \E i \in 1..Len(c) : Exists(c[i])
    THEN c[CHOOSE i \in 1..Len(c) : Exists(c[i]) /\ \A j \in 1..(i-1) : ~Exists(c[j])]
    ELSE NoLoc

FindResourcePath(ref) == FirstExisting(FindResourceCandidates(ref))

\* ResourceHandler._get_mime_type: mimetypes.guess_type with the types
\* _initialize_mime_types adds (.heic among them), else octet-stream
HandlerGetMimeType(path) ==
    LET extension == PathSuffix(path)
    IN IF extension = ".png" THEN "image/png"
       ELSE IF extension = ".heic" THEN "image/heic"
       ELSE "application/octet-stream"

\* placeholder_data of _create_placeholder_resource: the fixed 1x1 PNG
\* b64decode("iVBORw0KGgo..."), cut to the first four bytes of the literal
PlaceholderData == B64Decode("iVBORw==")

\* ResourceHandler._create_placeholder_resource
CreatePlaceholderResource(resource_ref) ==
    [ data        |-> B64Encode(PlaceholderData),
      mime        |-> "image/png",
      hash        |-> MD5(PlaceholderData),
      filename    |-> PathName(resource_ref),
      size        |-> Len(PlaceholderData),
      reference   |-> resource_ref,
      placeholder |-> TRUE ]

\* EmbedResourceFile with the digest taken of a partial read (all bytes but
\* the last)
EmbedResourceFile_PartialRead(file_path, resource_ref) ==
    LET data == fs[file_path]
    IN [ data        |-> B64Encode(data),
         mime        |-> HandlerGetMimeType(file_path.path),
         hash        |-> MD5(SubSeq(data, 1, Len(data) - 1)),
         filename    |-> PathName(file_path.path),
         size        |-> Len(data),
         reference   |-> resource_ref,
         placeholder |-> FALSE ]

\* the record of a file that is read and embedded (placeholder |-> FALSE
\* stands for the key being absent; width/height are absent: no PIL)
EmbedResourceFile(file_path, resource_ref) ==
    LET data == fs[file_path]
    IN [ data        |-> B64Encode(data),
         mime        |-> HandlerGetMimeType(file_path.path),
         hash        |-> MD5(data),
         filename    |-> PathName(file_path.path),
         size        |-> Len(data),
         reference   |-> resource_ref,
         placeholder |-> FALSE ]

\* ResourceHandler._process_resource_file
ProcessResourceFile(file_path, resource_ref) ==
    IF Len(fs[file_path]) > cfg.max_resource_size
    THEN CreatePlaceholderResource(resource_ref)
    ELSE EmbedResourceFile(file_path, resource_ref)

\* HandlerIteration with the include_unknown_resources test inverted
HandlerIteration_FlagInverted(h, resource_ref) ==
    LET resource_path == FindResourcePath(resource_ref)
    IN IF resource_path = NoLoc
       THEN IF cfg.include_unknown_resources
            THEN h
            ELSE [h EXCEPT !.resource_map =
                               Put(@, resource_ref, CreatePlaceholderResource(resource_ref)),
                           !.keys = Append(@, resource_ref)]
       ELSE [ resource_map  |-> Put(h.resource_map, resource_ref,
                                    ProcessResourceFile(resource_path, resource_ref)),
              reference_map |-> Put(h.reference_map, PathName(resource_path.path),
                                    resource_ref),
              keys          |-> Append(h.keys, resource_ref) ]

\* one iteration of the loop of process_resources on handler state
\* h = [resource_map, reference_map, keys]; keys is the insertion order of
\* resource_map
HandlerIteration(h, resource_ref) ==
    LET resource_path == FindResourcePath(resource_ref)
    IN IF resource_path = NoLoc
       THEN IF ~cfg.include_unknown_resources
            THEN h
            ELSE [h EXCEPT !.resource_map =
                               Put(@, resource_ref, CreatePlaceholderResource(resource_ref)),
                           !.keys = Append(@, resource_ref)]
       ELSE [ resource_map  |-> Put(h.resource_map, resource_ref,
                                    ProcessResourceFile(resource_path, resource_ref)),
              reference_map |-> Put(h.reference_map, PathName(resource_path.path),
                                    resource_ref),
              keys          |-> Append(h.keys, resource_ref) ]

RECURSIVE HandlerLoop(_, _, _)
HandlerLoop(order, i, h) ==
    IF i > Len(order) THEN h
    ELSE HandlerLoop(order, i + 1, HandlerIteration(h, order[i]))

\* ResourceHandler.process_resources(resource_refs), the set iterated in
\* the given order: the maps are cleared, every reference is processed, and
\* the records are returned as list(resource_map.values())
ProcessResources(order) ==
    LET h == HandlerLoop(order, 1,
                 [resource_map |-> EmptyMap, reference_map |-> EmptyMap, keys |-> <<>>])
    IN [ resource_map  |-> h.resource_map,
         reference_map |-> h.reference_map,
         list          |-> [i \in 1..Len(h.keys) |-> h.resource_map[h.keys[i]]] ]

(***************************************************************************)
(* markdown_processor.py: image references                                 *)
(***************************************************************************)
\* re: \s
IsSpace(c) == c \in {" ", "\t", "\n", "\r"}

\* the end of the longest run of \s starting at i: the first index at or
\* after i that holds no white space
RECURSIVE SkipSpace(_, _)
SkipSpace(s, i) == IF IsSpace(Ch(s, i)) THEN SkipSpace(s, i + 1) ELSE i

\* str.strip()
RECURSIVE Strip(_)
Strip(s) ==
    IF IsSpace(Ch(s, 1)) THEN Strip(From(s, 2))
    ELSE IF IsSpace(Ch(s, Len(s))) THEN Strip(Before(s, Len(s)))
    ELSE s

\* the value _normalize_resource_path returns: None, or a str
NonePath == [is_none |-> TRUE, path |-> ""]

SomePath(p) == [is_none |-> FALSE, path |-> p]

\* MarkdownProcessor._normalize_resource_path
NormalizeResourcePath(path) ==
    IF StartsWith(path, "http://") \/ StartsWith(path, "https://") \/ StartsWith(path, "www.")
    THEN IF \/ Contains(path, "youtube.com")
            \/ Contains(path, "youtu.be")
            \/ Contains(path, "vimeo.com")
         THEN NonePath
         ELSE SomePath(path)
    ELSE LET cut == IF Contains(path, "|") THEN Before(path, Find(path, "|", 1)) ELSE path
         IN IF StartsWith(cut, "/") THEN SomePath(PathName(cut))
            ELSE IF StartsWith(cut, "./") THEN SomePath(From(cut, 3))
            ELSE SomePath(cut)

\* a match of the image pattern: the span matched (1-based, inclusive), the
\* alt text and the path captured, and which alternative matched
NoMatch == [start |-> 0, stop |-> 0, alt |-> "", path |-> "", wiki |-> FALSE]

\* !\[(.*?)\]\((.*?)\) tried at i: the lazy groups end at the first "](" and
\* the first ")" after it, and "." does not cross a line end
StandardImageAt(s, i) ==
    IF ~StartsWithAt(s, i, "![") THEN NoMatch
    ELSE LET j == Find(s, "](", i + 2)
             k == IF j = 0 THEN 0 ELSE Find(s, ")", j + 2)
         IN IF j # 0 /\ k # 0 /\ Find(SubSeq(s, i, k), "\n", 1) = 0
            THEN [start |-> i, stop |-> k, alt |-> SubSeq(s, i + 2, j - 1),
                  path |-> SubSeq(s, j + 2, k - 1), wiki |-> FALSE]
            ELSE NoMatch

\* !\[\[([^\]]+)\]\] tried at i: one or more characters up to the first "]",
\* which must start "]]"
WikiImageAt(s, i) ==
    IF ~StartsWithAt(s, i, "![[") THEN NoMatch
    ELSE LET m == Find(s, "]", i + 3)
         IN IF m > i + 3 /\ StartsWithAt(s, m, "]]")
            THEN [start |-> i, stop |-> m + 1, alt |-> "",
                  path |-> SubSeq(s, i + 3, m - 1), wiki |-> TRUE]
            ELSE NoMatch

\* the pattern of process_image_references, searched from index from: the
\* leftmost match, the standard alternative tried first
RECURSIVE NextImageMatch(_, _)
NextImageMatch(s, from) ==
    LET i == Find(s, "![", from)
    IN IF i = 0 THEN NoMatch
       ELSE IF StandardImageAt(s, i).start # 0 THEN StandardImageAt(s, i)
       ELSE IF WikiImageAt(s, i).start # 0 THEN WikiImageAt(s, i)
       ELSE NextImageMatch(s, i + 1)

\* the number of matches re.sub finds in s from index from
RECURSIVE ImageCount(_, _)
ImageCount(s, from) ==
    LET m == NextImageMatch(s, from)
    IN IF m.start = 0 THEN 0 ELSE 1 + ImageCount(s, m.stop + 1)

\* ProcessImage with nothing written for a path that cannot be normalized
ProcessImage_SilentEmpty(s, m, marker_id) ==
    LET normalized_path == NormalizeResourcePath(m.path)
    IN IF normalized_path.is_none
       THEN [text |-> "<a href=\"" \o m.path \o "\">" \o m.path \o "</a>",
             refs |-> {}, registry |-> <<>>]
       ELSE IF normalized_path.path # ""
       THEN [text |-> IF cfg.preserve_image_markdown
                      THEN SubSeq(s, m.start, m.stop)
                      ELSE "<en-media-marker id=\"" \o marker_id \o "\"></en-media-marker>",
             refs |-> {normalized_path.path},
             registry |-> << [path |-> normalized_path.path, alt_text |-> m.alt,
                              marker_id |-> marker_id, position |-> m.start - 1] >>]
       ELSE [text |-> "", refs |-> {}, registry |-> <<>>]

\* ProcessImage with the marker returned and the registry left alone
ProcessImage_NoRegistry(s, m, marker_id) ==
    LET normalized_path == NormalizeResourcePath(m.path)
    IN IF normalized_path.is_none
       THEN [text |-> "<a href=\"" \o m.path \o "\">" \o m.path \o "</a>",
             refs |-> {}, registry |-> <<>>]
       ELSE IF normalized_path.path # ""
       THEN [text |-> "<en-media-marker id=\"" \o marker_id \o "\"></en-media-marker>",
             refs |-> {normalized_path.path}, registry |-> <<>>]
       ELSE [text |-> "[Image not found: <a href=\"" \o m.path \o "\">" \o m.path \o "</a>]",
             refs |-> {}, registry |-> <<>>]

\* the callback process_image on match m of s with the marker id drawn for
\* it: the replacement text, the paths added to image_references and the
\* ImageRefs appended to image_registry
ProcessImage(s, m, marker_id) ==
    LET normalized_path == NormalizeResourcePath(m.path)
    IN IF normalized_path.is_none
       THEN [text |-> "<a href=\"" \o m.path \o "\">" \o m.path \o "</a>",
             refs |-> {}, registry |-> <<>>]
       ELSE IF normalized_path.path # ""
       THEN [text |-> IF cfg.preserve_image_markdown
                      THEN SubSeq(s, m.start, m.stop)
                      ELSE "<en-media-marker id=\"" \o marker_id \o "\"></en-media-marker>",
             refs |-> {normalized_path.path},
             registry |-> << [path |-> normalized_path.path, alt_text |-> m.alt,
                              marker_id |-> marker_id, position |-> m.start - 1] >>]
       ELSE [text |-> "[Image not found: <a href=\"" \o m.path \o "\">" \o m.path \o "</a>]",
             refs |-> {}, registry |-> <<>>]

\* re.sub(pattern, process_image, content) from index from, the callback
\* given the marker ids in the order drawn
RECURSIVE ImageSub(_, _, _, _)
ImageSub(s, from, ids, acc) ==
    LET m == NextImageMatch(s, from)
    IN IF m.start = 0 THEN [acc EXCEPT !.text = @ \o From(s, from)]
       ELSE LET r == ProcessImage(s, m, Head(ids))
            IN ImageSub(s, m.stop + 1, Tail(ids),
                   [text |-> acc.text \o SubSeq(s, from, m.start - 1) \o r.text,
                    image_references |-> acc.image_references \cup r.refs,
                    image_registry |-> acc.image_registry \o r.registry])

\* MarkdownProcessor.process_image_references: registry and references are
\* reset, then every match is replaced
ProcessImageReferences(s, ids) ==
    ImageSub(s, 1, ids, [text |-> "", image_references |-> {}, image_registry |-> <<>>])

\* uuid.uuid4().hex[:8] for n successive calls: n values, drawn in any order
\* from the pool and without repetition (two random ids falling together is
\* not modelled)
MaxUuid == 3

UuidPool == {"IMG_0000000" \o ToString(n) : n \in 1..MaxUuid}

UuidDraws(n) == {o \in [1..n -> UuidPool] : \A i, j \in 1..n : o[i] = o[j] => i = j}

(***************************************************************************)
(* enml_processor.py: ENMLProcessor                                        *)
(***************************************************************************)
\* ENMLProcessor._find_resource_path: the candidates in the order tried
EnmlFindResourceCandidates(ref) ==
    << JoinPath("src", ref), DirectPath(ref), JoinPath("cwd", ref) >>

\* ENMLProcessor._get_mime_type: the processor's own extension table
EnmlGetMimeType(path) ==
    LET extension == PathSuffix(path)
    IN IF extension = ".png" THEN "image/png"
       ELSE IF extension = ".jpg" THEN "image/jpeg"
       ELSE "application/octet-stream"

\* one iteration of the loop of _prepare_resources on the dict
\* rm = [map, keys] (keys: the insertion order)
PrepareIteration(rm, resource_ref) ==
    LET resource_path == FirstExisting(EnmlFindResourceCandidates(resource_ref))
    IN IF resource_path = NoLoc THEN rm
       ELSE [ map  |-> Put(rm.map, resource_ref,
                           [ data     |-> B64Encode(fs[resource_path]),
                             mime     |-> EnmlGetMimeType(resource_path.path),
                             hash     |-> MD5(fs[resource_path]),
                             filename |-> PathName(resource_path.path) ]),
              keys |-> Append(rm.keys, resource_ref) ]

\* ENMLProcessor._prepare_resources(resource_refs), the set iterated in the
\* given order
RECURSIVE PrepareResources(_, _, _)
PrepareResources(order, i, rm) ==
    IF i > Len(order) THEN rm
    ELSE PrepareResources(order, i + 1, PrepareIteration(rm, order[i]))

NoInfo == [missing |-> TRUE]

\* ENMLProcessor._get_resource_info_for_path: the exact key, else the first
\* key of the dict with the same basename
GetResourceInfoForPath(rm, path) ==
    IF path \in DOMAIN rm.map THEN rm.map[path]
    ELSE LET same == {i \in 1..Len(rm.keys) : PathName(rm.keys[i]) = PathName(path)}
         IN IF same = {} THEN NoInfo
            ELSE rm.map[rm.keys[CHOOSE i \in same : \A j \in same : i <= j]]

\* Path(p).stem
PathStem(p) == Before(PathName(p), Len(PathName(p)) - Len(PathSuffix(p)) + 1)

\* html.escape(s)
HtmlEscape(s) ==
    Replace(Replace(Replace(Replace(Replace(s, "&", "&amp;"), "<", "&lt;"),
                            ">", "&gt;"), "\"", "&quot;"), "'", "&#x27;")

\* the callback replace_marker (no width or height: no PIL)
ReplaceMarker(rm, registry, marker_id) ==
    LET hits == {i \in 1..Len(registry) : registry[i].marker_id = marker_id}
    IN IF hits = {} THEN "<div>[Unknown image marker: " \o marker_id \o "]</div>"
       ELSE LET img_ref == registry[CHOOSE i \in hits : \A j \in hits : i <= j]
                resource_info == GetResourceInfoForPath(rm, img_ref.path)
                alt_text == IF Strip(img_ref.alt_text) # "" THEN Strip(img_ref.alt_text)
                            ELSE Replace(PathStem(img_ref.path), "_", " ")
            IN IF resource_info # NoInfo
               THEN "<en-media alt=\"" \o alt_text \o "\" hash=\"" \o resource_info.hash
                    \o "\" type=\"" \o resource_info.mime \o "\" />"
               ELSE "<div>[Image not found: " \o HtmlEscape(img_ref.path) \o "]</div>"

MarkerOpen == "<en-media-marker id=\""

MarkerClose == "\"></en-media-marker>"

\* ENMLProcessor._process_image_references: re.sub of
\* <en-media-marker id="([^"]+)"></en-media-marker> with replace_marker (the
\* modelled HTML holds no <img> tag for the second substitution to match)
RECURSIVE EnmlProcessImageReferences(_, _, _)
EnmlProcessImageReferences(s, rm, registry) ==
    LET i == Find(s, MarkerOpen, 1)
        q == IF i = 0 THEN 0 ELSE Find(s, "\"", i + Len(MarkerOpen))
    IN IF i = 0 THEN s
       ELSE IF q > i + Len(MarkerOpen) /\ StartsWithAt(s, q, MarkerClose)
       THEN Before(s, i)
            \o ReplaceMarker(rm, registry, SubSeq(s, i + Len(MarkerOpen), q - 1))
            \o EnmlProcessImageReferences(From(s, q + Len(MarkerClose)), rm, registry)
       ELSE Before(s, i + 1) \o EnmlProcessImageReferences(From(s, i + 1), rm, registry)

\* PERMITTED_ELEMENTS
PermittedElements ==
    { "a", "abbr", "acronym", "address", "area", "b", "bdo", "big", "blockquote",
      "br", "caption", "center", "cite", "code", "col", "colgroup", "dd", "del",
      "dfn", "div", "dl", "dt", "em", "font", "h1", "h2", "h3", "h4", "h5", "h6",
      "hr", "i", "img", "ins", "kbd", "li", "map", "ol", "p", "pre", "q", "s",
      "samp", "small", "span", "strike", "strong", "sub", "sup", "table", "tbody",
      "td", "tfoot", "th", "thead", "title", "tr", "tt", "u", "ul", "var", "xmp" }

\* the members of PROHIBITED_ELEMENTS whose tags the modelled texts can hold
ProhibitedElements == {"script", "style"}

\* re.sub('<element[^>]*>.*?</element>', '', s, flags=re.DOTALL): one pass,
\* left to right; a match runs from "<element" over the first ">" to the
\* first closing tag after it
RECURSIVE RemoveElements(_, _)
RemoveElements(s, element) ==
    LET i == Find(s, "<" \o element, 1)
        gt == IF i = 0 THEN 0 ELSE Find(s, ">", i + Len(element) + 1)
        close == IF gt = 0 THEN 0 ELSE Find(s, "</" \o element \o ">", gt + 1)
    IN IF close = 0 THEN s
       ELSE Before(s, i) \o RemoveElements(From(s, close + Len(element) + 3), element)

\* re.sub('<element[^>]*/?>', '', s): one pass over the tags left
RECURSIVE RemoveTags(_, _)
RemoveTags(s, element) ==
    LET i == Find(s, "<" \o element, 1)
        gt == IF i = 0 THEN 0 ELSE Find(s, ">", i + Len(element) + 1)
    IN IF gt = 0 THEN s
       ELSE Before(s, i) \o RemoveTags(From(s, gt + 1), element)

\* the loop over PROHIBITED_ELEMENTS (a set of str: its iteration order
\* differs from run to run), from its k-th element on
RECURSIVE RemoveProhibited(_, _, _)
RemoveProhibited(s, order, k) ==
    IF k > Len(order) THEN s
    ELSE RemoveProhibited(RemoveTags(RemoveElements(s, order[k]), order[k]), order, k + 1)

\* the members of PROHIBITED_ATTRIBUTES whose names the modelled texts can
\* hold (a set of str, iterated in an order that differs from run to run)
ProhibitedAttributes == {"id", "onclick"}

\* ENMLProcessor._clean_html: every substitution, in the order of the code;
\* the prohibited elements and attributes in the orders iterated
CleanHtml(s, order, attributes) ==
    LET
        \* re.sub with the pattern given by the end of the match at an index
        \* and the replacement by a callback
        Sub(t, MatchEnd(_, _), Repl(_, _, _)) ==
            CHOOSE r \in
               {ReSub(t, ends, [i \in 1..Len(t) |-> IF ends[i] = 0 THEN ""
                                                    ELSE Repl(t, i, ends[i])]) :
                ends \in {[i \in 1..Len(t) |-> MatchEnd(t, i)]}} : TRUE
        \* the nearest of two indexes found (0: not found)
        Nearest(a, b) == IF a = 0 THEN b ELSE IF b = 0 \/ a < b THEN a ELSE b
        Quote(t, i) == Nearest(Find(t, "\"", i), Find(t, "'", i))
        \* '<html[^>]*>|</html>|<body[^>]*>|</body>'
        ShellEnd(t, i) ==
            IF StartsWithAt(t, i, "<html") \/ StartsWithAt(t, i, "<body")
            THEN (IF Find(t, ">", i) = 0 THEN 0 ELSE Find(t, ">", i) + 1)
            ELSE IF StartsWithAt(t, i, "</html>") \/ StartsWithAt(t, i, "</body>")
            THEN i + 7 ELSE 0
        \* '<(img|br|hr)([^>]*)(?<!\/)>'
        UnclosedEnd(t, i) ==
            IF /\ \E tag \in {"<img", "<br", "<hr"} : StartsWithAt(t, i, tag)
               /\ Find(t, ">", i) # 0
               /\ Ch(t, Find(t, ">", i) - 1) # "/"
            THEN Find(t, ">", i) + 1 ELSE 0
        \* '([a-zA-Z0-9_-]+)=["\'](.*?)["\']' ("." matches no line end)
        QuotedEnd(t, i) ==
            IF Ch(t, i) \notin NameChars THEN 0
            ELSE LET e == SkipWhile(t, i, NameChars)
                     q == Quote(t, e + 2)
                 IN IF /\ Ch(t, e) = "=" /\ Ch(t, e + 1) \in {"\"", "'"}
                       /\ q # 0 /\ ~Contains(SubSeq(t, e + 2, q - 1), "\n")
                    THEN q + 1 ELSE 0
        \* fix_quotes: the value lies between two quotes and holds none
        FixQuotes(t, i, e) ==
            LET eq == SkipWhile(t, i, NameChars)
            IN SubSeq(t, i, eq) \o "\"" \o SubSeq(t, eq + 2, e - 2) \o "\""
        \* ' attr=["\'"][^\'"]*["\']'
        AttributeEnd(t, i, attr) ==
            IF /\ StartsWithAt(t, i, " " \o attr \o "=")
               /\ Ch(t, i + Len(attr) + 2) \in {"\"", "'"}
               /\ Quote(t, i + Len(attr) + 3) # 0
            THEN Quote(t, i + Len(attr) + 3) + 1 ELSE 0
        RECURSIVE RemoveAttributes(_, _)
        RemoveAttributes(t, k) ==
            IF k > Len(attributes) THEN t
            ELSE RemoveAttributes(
                     Sub(t, LAMBDA u, i : AttributeEnd(u, i, attributes[k]),
                              LAMBDA u, i, e : ""), k + 1)
        \* '<(?!/)([a-z0-9]+)(?:\s+[^>]*)?(?<![/\"])>'
        MalformedEnd(t, i) ==
            IF Ch(t, i) # "<" \/ SkipWhile(t, i + 1, LowerAlnum) = i + 1 THEN 0
            ELSE LET e == SkipWhile(t, i + 1, LowerAlnum)
                     gt == Find(t, ">", e)
                 IN IF Ch(t, e) = ">" THEN e + 1
                    ELSE IF /\ IsSpace(Ch(t, e)) /\ gt # 0
                            /\ Ch(t, gt - 1) \notin {"/", "\""}
                    THEN gt + 1 ELSE 0
        BareTag(t, i, e) == SubSeq(t, i, SkipWhile(t, i + 1, LowerAlnum) - 1) \o ">"
    \* each substitution works on the value of the one before
    IN CHOOSE cleaned \in
          {Replace(Sub(stripped, MalformedEnd, BareTag), "&nbsp;", "&#160;") :
           stripped \in {RemoveAttributes(fixed, 1) :
           fixed \in {Sub(closed, QuotedEnd, FixQuotes) :
           closed \in {Sub(bare, UnclosedEnd, LAMBDA t, i, e : SubSeq(t, i, e - 2) \o "/>") :
           bare \in {RemoveProhibited(shelled, order, 1) :
           shelled \in {Sub(RemoveTags(s, "!DOCTYPE"), ShellEnd,
                               LAMBDA t, i, e : "")}}}}}} : TRUE

\* re.sub(r'<p>(.*?)</p>', r'<div>\1</div>', s, flags=re.DOTALL)
RECURSIVE ParagraphsToDivs(_)
ParagraphsToDivs(s) ==
    LET i == Find(s, "<p>", 1)
        c == IF i = 0 THEN 0 ELSE Find(s, "</p>", i + 3)
    IN IF c = 0 THEN s
       ELSE Before(s, i) \o "<div>" \o SubSeq(s, i + 3, c - 1) \o "</div>"
            \o ParagraphsToDivs(From(s, c + 4))

\* re.sub(r'<div>\s*(<en-media[^>]+/>)\s*</div>', r'\1', s)
RECURSIVE UnwrapLoneMedia(_)
UnwrapLoneMedia(s) ==
    LET i == Find(s, "<div>", 1)
        j == SkipSpace(s, i + 5)
        gt == Find(s, ">", j + 9)
        e == SkipSpace(s, gt + 1)
    IN IF i = 0 THEN s
       ELSE IF /\ StartsWithAt(s, j, "<en-media")
               /\ gt >= j + 11 /\ Ch(s, gt - 1) = "/"
               /\ StartsWithAt(s, e, "</div>")
       THEN Before(s, i) \o SubSeq(s, j, gt) \o UnwrapLoneMedia(From(s, e + 6))
       ELSE Before(s, i + 1) \o UnwrapLoneMedia(From(s, i + 1))

\* re.sub(r'</div>(?!\s*<)', r'</div><div><br/></div>', s)
RECURSIVE BreakAfterDivs(_)
BreakAfterDivs(s) ==
    LET i == Find(s, "</div>", 1)
        rest == From(s, i + 6)
    IN IF i = 0 THEN s
       ELSE Before(s, i + 6)
            \o (IF Ch(rest, SkipSpace(rest, 1)) = "<" THEN "" ELSE "<div><br/></div>")
            \o BreakAfterDivs(rest)

\* re.sub(r'>\s+<', '><', s, flags=re.DOTALL)
RECURSIVE TightenTags(_)
TightenTags(s) ==
    LET i == Find(s, ">", 1)
        e == SkipSpace(s, i + 1)
    IN IF i = 0 THEN s
       ELSE IF e > i + 1 /\ Ch(s, e) = "<" THEN Before(s, i + 1) \o TightenTags(From(s, e))
       ELSE Before(s, i + 1) \o TightenTags(From(s, i + 1))

\* ENMLProcessor._convert_to_evernote_format: steps 1, 1a, 2, 3, 6 and 7
\* and the final substitutions.  The modelled texts hold no list tag and no
\* line end inside a div, which is what its other steps match.
ConvertToEvernoteFormat(s) ==
    LET
        \* re.sub with the pattern given by the end of the match at an index
        \* and the replacement by a callback
        Sub(t, MatchEnd(_, _), Repl(_, _, _)) ==
            CHOOSE r \in
               {ReSub(t, ends, [i \in 1..Len(t) |-> IF ends[i] = 0 THEN ""
                                                    ELSE Repl(t, i, ends[i])]) :
                ends \in {[i \in 1..Len(t) |-> MatchEnd(t, i)]}} : TRUE
        \* '(?<!["\'=])(https?://[^\s<>"\']+)'
        UrlStart(t, i) ==
            IF StartsWithAt(t, i, "http://") THEN i + 7
            ELSE IF StartsWithAt(t, i, "https://") THEN i + 8 ELSE 0
        UrlEnd(t, i) ==
            IF UrlStart(t, i) = 0 \/ Ch(t, i - 1) \in {"\"", "'", "="} THEN 0
            ELSE LET stops == {Find(t, c, UrlStart(t, i)) :
                                  c \in {" ", "\t", "\n", "\r", "<", ">", "\"", "'"}} \ {0}
                     e == IF stops = {} THEN Len(t) + 1
                          ELSE CHOOSE k \in stops : \A l \in stops : k <= l
                 IN IF e > UrlStart(t, i) THEN e ELSE 0
        \* replace_url
        ReplaceUrl(t, i, e) ==
            "<a href=\"" \o SubSeq(t, i, e - 1) \o "\" rev=\"en_rl_none\">"
            \o SubSeq(t, i, e - 1) \o "</a>"
        \* '<div>-{3,}</div>': the index after the one that starts at i
        RuleEnd(t, i) ==
            IF StartsWithAt(t, i, "<div>---")
               /\ StartsWithAt(t, SkipWhile(t, i + 8, {"-"}), "</div>")
            THEN SkipWhile(t, i + 8, {"-"}) + 6 ELSE 0
        \* '<div>-{3,}</div>.*?<div>-{3,}</div>' with re.DOTALL
        FrontmatterEnd(t, i) ==
            IF RuleEnd(t, i) = 0 THEN 0
            ELSE LET closes == {k \in RuleEnd(t, i)..Len(t) : RuleEnd(t, k) # 0}
                 IN IF closes = {} THEN 0
                    ELSE RuleEnd(t, CHOOSE k \in closes : \A l \in closes : k <= l)
        \* '<div>\s*</div>'
        EmptyDivEnd(t, i) ==
            IF StartsWithAt(t, i, "<div>") /\ StartsWithAt(t, SkipSpace(t, i + 5), "</div>")
            THEN SkipSpace(t, i + 5) + 6 ELSE 0
        \* '<([a-z0-9]+) lang='
        LangEnd(t, i) ==
            IF /\ Ch(t, i) = "<" /\ SkipWhile(t, i + 1, LowerAlnum) > i + 1
               /\ StartsWithAt(t, SkipWhile(t, i + 1, LowerAlnum), " lang=")
            THEN SkipWhile(t, i + 1, LowerAlnum) + 6 ELSE 0
    \* each step works on the value of the one before
    IN CHOOSE formatted \in
          {TightenTags(Sub(filled, LangEnd,
                             LAMBDA t, i, e : SubSeq(t, i, e - 6) \o "xml:lang=")) :
           filled \in {Sub(cut, EmptyDivEnd, LAMBDA t, i, e : "") :
           cut \in {Sub(ended, FrontmatterEnd, LAMBDA t, i, e : "<div><br/></div>") :
           ended \in {IF EndsWith(spaced, "<div><br/></div>") THEN spaced
                      ELSE spaced \o "<div><br/></div>" :
           spaced \in {BreakAfterDivs(linked) :
           linked \in {Sub(unwrapped, UrlEnd, ReplaceUrl) :
           unwrapped \in {UnwrapLoneMedia(divs) :
           divs \in {ParagraphsToDivs(s)}}}}}}}} : TRUE

\* the wrapping of process_html_to_enml
WrapEnNote(processed_html) ==
    "<![CDATA[<?xml version=\"1.0\" encoding=\"UTF-8\" standalone=\"no\"?>\n"
    \o "<!DOCTYPE en-note SYSTEM \"http://xml.evernote.com/pub/enml2.dtd\"><en-note>"
    \o processed_html \o "</en-note>]]>"

\* ENMLProcessor.process_html_to_enml: resource_refs iterated in the given
\* order, PROHIBITED_ELEMENTS in the order elements, PROHIBITED_ATTRIBUTES
\* in the order attributes
ProcessHtmlToEnml(html_content, order, registry, elements, attributes) ==
    LET rm == PrepareResources(order, 1, [map |-> EmptyMap, keys |-> <<>>])
    IN CHOOSE enml \in
          {WrapEnNote(ConvertToEvernoteFormat(cleaned)) :
           cleaned \in {CleanHtml(marked, elements, attributes) :
           marked \in {EnmlProcessImageReferences(html_content, rm, registry)}}} : TRUE

(***************************************************************************)
(* markdown_processor.py: frontmatter; html_converter.py                   *)
(***************************************************************************)
\* Python values of more than one type: a str, a datetime (kept as the text
\* it was parsed from) or a list of str
Str(v) == [type |-> "str", value |-> v]

DateTime(v) == [type |-> "datetime", value |-> v]

List(items) == [type |-> "list", items |-> items]

\* s.split(sep)
RECURSIVE Split(_, _)
Split(s, sep) ==
    LET i == Find(s, sep, 1)
    IN IF i = 0 THEN <<s>> ELSE <<Before(s, i)>> \o Split(From(s, i + Len(sep)), sep)

IsDigit(c) == c \in {"0", "1", "2", "3", "4", "5", "6", "7", "8", "9"}

\* the number two digits at the head of s spell, -1 if they are not digits
TwoDigits(s) ==
    IF IsDigit(Ch(s, 1)) /\ IsDigit(Ch(s, 2))
    THEN 10 * (CHOOSE n \in 0..9 : ToString(n) = Ch(s, 1))
         + (CHOOSE n \in 0..9 : ToString(n) = Ch(s, 2))
    ELSE -1

\* the values a two-digit field of strptime takes
FieldRange(directive) ==
    IF directive = "m" THEN 1..12
    ELSE IF directive = "d" THEN 1..31
    ELSE IF directive = "H" THEN 0..23
    ELSE IF directive = "M" THEN 0..59
    ELSE IF directive = "S" THEN 0..61
    ELSE {}

\* datetime.strptime(value, fmt) returns (it raises ValueError otherwise),
\* for values whose numeric fields are written with two digits and which
\* hold no month name
RECURSIVE Strptime(_, _)
Strptime(value, fmt) ==
    IF fmt = "" THEN value = ""
    ELSE IF StartsWith(fmt, "%Y")
    THEN /\ \A k \in 1..4 : IsDigit(Ch(value, k))
         /\ Strptime(From(value, 5), From(fmt, 3))
    ELSE IF StartsWith(fmt, "%")
    THEN /\ TwoDigits(value) \in FieldRange(Ch(fmt, 2))
         /\ Strptime(From(value, 3), From(fmt, 3))
    ELSE /\ Ch(value, 1) = Ch(fmt, 1)
         /\ Strptime(From(value, 2), From(fmt, 2))

\* the formats extract_frontmatter tries
FrontmatterDateFormats ==
    << "%Y-%m-%d", "%Y-%m-%d %H:%M:%S", "%Y/%m/%d", "%d/%m/%Y", "%B %d, %Y", "%d %B %Y" >>

\* the formats ENEXGenerator._parse_date tries (dateutil, an optional
\* package tried last, parses none of the modelled values the formats reject)
GeneratorDateFormats ==
    << "%Y-%m-%d", "%Y-%m-%d %H:%M:%S", "%Y-%m-%dT%H:%M:%S", "%Y-%m-%dT%H:%M:%SZ",
       "%Y%m%dT%H%M%SZ", "%d/%m/%Y", "%m/%d/%Y", "%b %d, %Y", "%d %b %Y",
       "%B %d, %Y", "%d %B %Y", "%Y/%m/%d" >>

ParsesAs(value, formats) == \E i \in 1..Len(formats) : Strptime(value, formats[i])

DateKeys == {"created", "updated", "date"}

\* the end of a match of \s*\n tried at i: the last line end of the white
\* space run that starts at i, 0 if it holds none
LineEndAfter(s, i) ==
    LET r == RFind(SubSeq(s, i, SkipSpace(s, i) - 1), "\n")
    IN IF r = 0 THEN 0 ELSE i + r - 1

\* the start of the first "\n---\s*\n" at or after c, 0 if none
RECURSIVE FrontmatterClose(_, _)
FrontmatterClose(s, c) ==
    LET i == Find(s, "\n---", c)
    IN IF i = 0 THEN 0
       ELSE IF LineEndAfter(s, i + 4) # 0 THEN i
       ELSE FrontmatterClose(s, i + 1)

\* one line of the frontmatter block parsed into metadata
FrontmatterLine(metadata, line) ==
    IF ~Contains(line, ":") THEN metadata
    ELSE LET key == Lower(Strip(Before(line, Find(line, ":", 1))))
             value == Strip(From(line, Find(line, ":", 1) + 1))
         IN Put(metadata, key,
                IF key \in DateKeys
                THEN IF ParsesAs(value, FrontmatterDateFormats)
                     THEN DateTime(value) ELSE Str(value)
                ELSE IF Contains(value, ",") /\ key \in {"tags", "keywords", "categories"}
                THEN List([i \in 1..Len(Split(value, ",")) |-> Strip(Split(value, ",")[i])])
                ELSE Str(value))

RECURSIVE FrontmatterLines(_, _, _)
FrontmatterLines(lines, i, metadata) ==
    IF i > Len(lines) THEN metadata
    ELSE FrontmatterLines(lines, i + 1, FrontmatterLine(metadata, lines[i]))

\* ExtractFrontmatter with a pattern that is not anchored: the first block
\* found anywhere in the text is taken
ExtractFrontmatter_Unanchored(s) ==
    LET starts == {i \in 1..Len(s) :
                      /\ StartsWithAt(s, i, "---")
                      /\ \E o \in (i + 3)..(SkipSpace(s, i + 3) - 1) :
                            Ch(s, o) = "\n" /\ FrontmatterClose(s, o + 1) # 0}
    IN IF starts = {} THEN [content |-> s, metadata |-> EmptyMap]
       ELSE LET i == CHOOSE k \in starts : \A l \in starts : k <= l
                open == SetMax({o \in (i + 3)..(SkipSpace(s, i + 3) - 1) :
                                   Ch(s, o) = "\n" /\ FrontmatterClose(s, o + 1) # 0})
                close == FrontmatterClose(s, open + 1)
            IN [ content  |-> From(s, LineEndAfter(s, close + 4) + 1),
                 metadata |-> FrontmatterLines(Split(SubSeq(s, open + 1, close - 1), "\n"),
                                               1, EmptyMap) ]

\* MarkdownProcessor.extract_frontmatter: re.search of ^---\s*\n(.*?)\n---\s*\n.
\* The opening \s*\n ends at the last line end of the white space after
\* "---" from which a closing delimiter can still be found.
ExtractFrontmatter(s) ==
    LET opens == IF StartsWith(s, "---")
                 THEN {o \in 4..(SkipSpace(s, 4) - 1) :
                          Ch(s, o) = "\n" /\ FrontmatterClose(s, o + 1) # 0}
                 ELSE {}
    IN IF opens = {} THEN [content |-> s, metadata |-> EmptyMap]
       ELSE LET open == SetMax(opens)
                close == FrontmatterClose(s, open + 1)
            IN [ content  |-> From(s, LineEndAfter(s, close + 4) + 1),
                 metadata |-> FrontmatterLines(Split(SubSeq(s, open + 1, close - 1), "\n"),
                                               1, EmptyMap) ]

\* The fence of a code block, three backticks.  A string of this module
\* cannot hold a backtick: the texts write a tilde for it.
Fence == "~~~"

(***************************************************************************)
(* markdown_processor.py: the passes of process_markdown                   *)
(***************************************************************************)
\* '\n'.join(lines)
RECURSIVE JoinLines(_)
JoinLines(lines) ==
    IF lines = <<>> THEN ""
    ELSE IF Len(lines) = 1 THEN lines[1]
    ELSE lines[1] \o "\n" \o JoinLines(Tail(lines))

\* convert_star_lists_to_dashes
ConvertStarListsToDashes(text) ==
    LET Line(line) ==
            LET marked == Replace(line, "\\*", "__ESCAPED_ASTERISK__")
                i == SkipSpace(marked, 1)
                dashed == IF StartsWithAt(marked, i, "* ")
                          THEN Before(marked, i) \o "-" \o From(marked, i + 1)
                          ELSE marked
            IN Replace(dashed, "__ESCAPED_ASTERISK__", "*")
    IN CHOOSE r \in {JoinLines([k \in 1..Len(lines) |-> Line(lines[k])]) :
                        lines \in {Split(text, "\n")}} : TRUE

\* process_wiki_links_and_highlights: [[link|text]] and ==text== give their
\* text, the wiki link of an image is kept.  (~~text~~ is not modelled: the
\* model's ~ is the backtick and the texts hold no tilde.)
ProcessWikiLinksAndHighlights(text) ==
    LET Close(s, i, open, c) ==
            LET j == Find(s, c, i + Len(open))
            IN IF StartsWithAt(s, i, open) /\ j > i + Len(open) /\ StartsWithAt(s, j, c \o c)
               THEN j ELSE 0
        WikiEnd(s, i) == IF Close(s, i, "[[", "]") = 0 THEN 0 ELSE Close(s, i, "[[", "]") + 2
        WikiRepl(s, i) ==
            LET link_content == SubSeq(s, i + 2, Close(s, i, "[[", "]") - 1)
            IN IF Ch(s, IF i = 1 THEN 1 ELSE i - 1) = "!" THEN "[[" \o link_content \o "]]"
               ELSE IF Contains(link_content, "|") THEN Split(link_content, "|")[2]
               ELSE link_content
        Wiki(s) == ReSub(s, [i \in 1..Len(s) |-> WikiEnd(s, i)],
                         [i \in 1..Len(s) |-> IF WikiEnd(s, i) = 0 THEN "" ELSE WikiRepl(s, i)])
        MarkEnd(s, i) == IF Close(s, i, "==", "=") = 0 THEN 0 ELSE Close(s, i, "==", "=") + 2
        Highlights(s) ==
            ReSub(s, [i \in 1..Len(s) |-> MarkEnd(s, i)],
                  [i \in 1..Len(s) |-> IF MarkEnd(s, i) = 0 THEN ""
                                       ELSE SubSeq(s, i + 2, Close(s, i, "==", "=") - 1)])
    IN CHOOSE r \in {Highlights(w) : w \in {Wiki(text)}} : TRUE

\* remove_code_block_markers: the pattern takes an opening fence, the rest
\* of its line if a closing fence follows that line, the code up to the
\* next fence, and one line end before it
RemoveCodeBlockMarkers(text) ==
    LET Match(i) ==
            LET nl == Find(text, "\n", i + 3)
                after_line == IF nl = 0 THEN 0 ELSE Find(text, Fence, nl + 1)
                start == IF after_line # 0 THEN nl + 1 ELSE i + 3
                close == IF after_line # 0 THEN after_line ELSE Find(text, Fence, i + 3)
            IN IF ~StartsWithAt(text, i, Fence) \/ close = 0 THEN [end |-> 0, code |-> ""]
               ELSE [ end  |-> close + 3,
                      code |-> SubSeq(text, start,
                                      IF close - 1 >= start /\ Ch(text, close - 1) = "\n"
                                      THEN close - 2 ELSE close - 1) ]
    IN CHOOSE r \in {ReSub(text, [i \in 1..Len(text) |-> ms[i].end],
                           [i \in 1..Len(text) |-> ms[i].code]) :
                        ms \in {[i \in 1..Len(text) |-> Match(i)]}} : TRUE

\* convert_inline_code: the text between a backtick and the next one
ConvertInlineCode(text) ==
    LET End(i) == IF Ch(text, i) = "~" /\ Find(text, "~", i + 1) # 0
                  THEN Find(text, "~", i + 1) + 1 ELSE 0
    IN ReSub(text, [i \in 1..Len(text) |-> End(i)],
             [i \in 1..Len(text) |-> IF End(i) = 0 THEN ""
                                     ELSE SubSeq(text, i + 1, End(i) - 2)])

\* handle_special_characters with no special_char_replacements
HandleSpecialCharacters(text) ==
    Replace(Replace(Replace(Replace(Replace(text, "&", "&amp;"), "<", "&lt;"),
                            ">", "&gt;"), "\"", "&quot;"), "'", "&#39;")

\* remove_heading_markers: one to six # and the white space after them, at
\* the start of a line
RemoveHeadingMarkers(text) ==
    LET Line(line) ==
            LET n == SkipWhile(line, 1, {"#"}) - 1
            IN IF n \in 1..6 /\ IsSpace(Ch(line, n + 1))
               THEN From(line, SkipSpace(line, n + 1)) ELSE line
    IN CHOOSE r \in {JoinLines([k \in 1..Len(lines) |-> Line(lines[k])]) :
                        lines \in {Split(text, "\n")}} : TRUE

\* process_links: [text](url) on one line
ProcessLinks(text) ==
    LET Match(i) ==
            LET mid == Find(text, "](", i + 1)
                stop == IF mid = 0 THEN 0 ELSE Find(text, ")", mid + 2)
            IN IF Ch(text, i) = "[" /\ stop # 0
                  /\ ~Contains(SubSeq(text, i + 1, stop - 1), "\n")
               THEN [ end  |-> stop + 1,
                      repl |-> "[[link:" \o SubSeq(text, mid + 2, stop - 1) \o "|"
                               \o SubSeq(text, i + 1, mid - 1) \o "]]" ]
               ELSE [end |-> 0, repl |-> ""]
    IN CHOOSE r \in {ReSub(text, [i \in 1..Len(text) |-> ms[i].end],
                           [i \in 1..Len(text) |-> ms[i].repl]) :
                        ms \in {[i \in 1..Len(text) |-> Match(i)]}} : TRUE

\* the passes of process_markdown that run before process_image_references
\* (clean_unicode_characters changes no ASCII text)
BeforeImageReferences(text) ==
    CHOOSE r \in {RemoveHeadingMarkers(e) : e \in {HandleSpecialCharacters(d) :
                  d \in {ConvertInlineCode(c) : c \in {RemoveCodeBlockMarkers(b) :
                  b \in {ProcessWikiLinksAndHighlights(a) :
                  a \in {ConvertStarListsToDashes(text)}}}}}} : TRUE

\* What MarkdownProcessor.process_markdown and process_markdown_file return
\* with the default options, given the image step's value: process_links
\* runs last
ProcessMarkdownResult(metadata, img) ==
    [ processed_markdown |-> ProcessLinks(img.text),
      resources          |-> img.image_references,
      frontmatter        |-> metadata,
      image_registry     |-> img.image_registry ]

\* process_markdown on the content split by extract_frontmatter
ProcessMarkdownBody(fm, ids) ==
    ProcessMarkdownResult(fm.metadata,
                          ProcessImageReferences(BeforeImageReferences(fm.content), ids))

ProcessMarkdown(s, ids) == ProcessMarkdownBody(ExtractFrontmatter(s), ids)

\* HTMLConverter.convert_to_html on one line of text that holds no markdown
\* syntax: markdown.markdown makes it one paragraph and keeps its inline tags
ConvertToHtml(processed_markdown) == "<p>" \o processed_markdown \o "</p>"

(***************************************************************************)
(* __main__.py: main, and what it calls of enex_generator.py and           *)
(* enex_output.py                                                          *)
(***************************************************************************)
\* dict.get(key, default)
Get(map, key, default) == IF key \in DOMAIN map THEN map[key] ELSE default

\* ENEXGenerator.extract_note_metadata: the file's times, the first heading
\* or the stem as title, the first "date:", "created:", "updated:" and
\* "tags:" lines of the markdown
ExtractNoteMetadata(note_info, processed_markdown) ==
    LET \* re.search of ^prefix\s*(.*?)$ with MULTILINE and IGNORECASE (for
        \* the title \s+: least == 1): the stripped group in a set, {} if
        \* there is no match
        Group(prefix, least) ==
            LET hits == {p \in 1..Len(processed_markdown) :
                            /\ p = 1 \/ Ch(processed_markdown, p - 1) = "\n"
                            /\ p + Len(prefix) - 1 <= Len(processed_markdown)
                            /\ Lower(SubSeq(processed_markdown, p, p + Len(prefix) - 1)) = prefix
                            /\ SkipSpace(processed_markdown, p + Len(prefix))
                                  >= p + Len(prefix) + least}
                first == CHOOSE p \in hits : \A q \in hits : p <= q
                start == SkipSpace(processed_markdown, first + Len(prefix))
                end == Find(processed_markdown, "\n", start)
            IN IF hits = {} THEN {}
               ELSE {Strip(SubSeq(processed_markdown, start,
                                  IF end = 0 THEN Len(processed_markdown) ELSE end - 1))}
        DateOf(key) == {v \in Group(key \o ":", 0) : ParsesAs(v, GeneratorDateFormats)}
        Items(v) == [k \in 1..Len(Split(v, ",")) |-> Strip(Split(v, ",")[k])]
        extracted_keys ==
            {"file_created", "file_modified", "title"}
            \cup {key \in DateKeys : DateOf(key) # {}}
            \cup {key \in {"tags"} : Group("tags:", 0) # {}}
        extracted ==
            [ key \in extracted_keys |->
                CASE key = "file_created" -> DateTime("ctime")
                  [] key = "file_modified" -> DateTime("mtime")
                  [] key = "title" ->
                        IF Group("#", 1) # {} THEN Str(CHOOSE v \in Group("#", 1) : TRUE)
                        ELSE Str(PathStem(note_info.file_path))
                  [] key = "tags" -> List(Items(CHOOSE v \in Group("tags:", 0) : TRUE))
                  [] OTHER -> DateTime(CHOOSE v \in DateOf(key) : TRUE) ]
    IN extracted

\* NoteMetadata with the override of main left out for the keys
\* extract_note_metadata has found
NoteMetadata_KeepExtracted(note_info, frontmatter, processed_markdown) ==
    LET extracted == ExtractNoteMetadata(note_info, processed_markdown)
    IN [ key \in DOMAIN extracted \cup DOMAIN frontmatter |->
           IF key \in DOMAIN extracted THEN extracted[key] ELSE frontmatter[key] ]

\* the metadata of extract_note_metadata, overridden by the frontmatter as
\* main lines 247-260 do
NoteMetadata(note_info, frontmatter, processed_markdown) ==
    LET extracted == ExtractNoteMetadata(note_info, processed_markdown)
    IN [ key \in DOMAIN extracted \cup DOMAIN frontmatter |->
           IF key \notin DOMAIN frontmatter THEN extracted[key]
           ELSE IF /\ key \in DateKeys
                   /\ frontmatter[key].type = "str"
                   /\ ParsesAs(frontmatter[key].value, GeneratorDateFormats)
                THEN DateTime(frontmatter[key].value)
                ELSE frontmatter[key] ]

\* the note main lines 262-282 create from the metadata (create_note_object;
\* its random guid is left out)
NoteObject(metadata, enml_content, notebook) ==
    [ title     |-> metadata["title"].value,
      content   |-> enml_content,
      resources |-> <<>>,
      created   |-> Get(metadata, "created", metadata["file_created"]),
      updated   |-> Get(metadata, "updated", metadata["file_modified"]),
      tags      |-> Get(metadata, "tags", List(<<>>)),
      notebook  |-> notebook ]

CreateNote(note_info, frontmatter, processed_markdown, enml_content) ==
    NoteObject(NoteMetadata(note_info, frontmatter, processed_markdown), enml_content,
               note_info.folder_path)

\* LoopBody with an exception ending the loop instead of the note
LoopBody_AbortOnError(loop, note_info, md, order) ==
    IF ~note_info.readable
    THEN [loop EXCEPT !.note_count = Len(scan_result)]
    ELSE IF note_info.html_raises
    THEN [loop EXCEPT !.note_count = Len(scan_result),
                      !.all_resources = @ \cup md.resources]
    ELSE [ note_count      |-> loop.note_count + 1,
           all_resources   |-> loop.all_resources \cup md.resources,
           processed_notes |-> Append(loop.processed_notes,
               [ note      |-> CreateNote(note_info, md.frontmatter, md.processed_markdown,
                                  ProcessHtmlToEnml(ConvertToHtml(md.processed_markdown),
                                      order, md.image_registry, <<"script", "style">>,
                                      <<"id", "onclick">>)),
                 resources |-> md.resources,
                 note_info |-> note_info ]) ]

\* the body of main's loop over scan_result['notes'] (lines 223-287) on
\* loop = [note_count, all_resources, processed_notes]: md is what
\* process_markdown_file returns when it returns, order the iteration order
\* of the note's references in _prepare_resources.  An exception leaves the
\* try block where it is raised: in process_markdown_file for a file that
\* cannot be read or decoded, in convert_markdown_to_html (or any later
\* step) after all_resources was updated.  (PROHIBITED_ELEMENTS and
\* PROHIBITED_ATTRIBUTES are passed in one order: the HTML of the modelled
\* notes holds none of their tags or names.)
LoopBody(loop, note_info, md, order) ==
    IF ~note_info.readable
    THEN [loop EXCEPT !.note_count = @ + 1]
    ELSE IF note_info.html_raises
    THEN [loop EXCEPT !.note_count = @ + 1,
                      !.all_resources = @ \cup md.resources]
    ELSE [ note_count      |-> loop.note_count + 1,
           all_resources   |-> loop.all_resources \cup md.resources,
           processed_notes |-> Append(loop.processed_notes,
               [ note      |-> CreateNote(note_info, md.frontmatter, md.processed_markdown,
                                  ProcessHtmlToEnml(ConvertToHtml(md.processed_markdown),
                                      order, md.image_registry, <<"script", "style">>,
                                      <<"id", "onclick">>)),
                 resources |-> md.resources,
                 note_info |-> note_info ]) ]

\* main lines 297-299: the lookup dict reference -> record
RECURSIVE MainResourceMap(_, _, _)
MainResourceMap(resource_objects, i, map) ==
    IF i > Len(resource_objects) THEN map
    ELSE MainResourceMap(resource_objects, i + 1,
                         Put(map, resource_objects[i].reference, resource_objects[i]))

\* NoteResourceObjects with every processed record attached
NoteResourceObjects_All(order, i, lookup) ==
    resource_list

\* main lines 308-311: the records of the references of one note, iterated
\* in the given order, that the lookup dict holds
RECURSIVE NoteResourceObjects(_, _, _)
NoteResourceObjects(order, i, lookup) ==
    IF i > Len(order) THEN <<>>
    ELSE (IF order[i] \in DOMAIN lookup THEN <<lookup[order[i]]>> ELSE <<>>)
         \o NoteResourceObjects(order, i + 1, lookup)

\* ENEXGenerator._generate_note_xml raises: _format_date calls strftime on
\* note["created"] and note["updated"], which a str does not have
GenerateNoteXmlRaises(note) ==
    note.created.type # "datetime" \/ note.updated.type # "datetime"

\* ENEXOutput.generate with group_by "single" and no note limit: one group,
\* "All Notes", written as one file once the XML of all its notes is built;
\* an exception becomes ENEXOutputError.  The value is the files written and
\* whether the error was raised.
GenerateOutput(notes) ==
    IF \E i \in 1..Len(notes) : GenerateNoteXmlRaises(notes[i])
    THEN [files |-> EmptyMap, raised |-> TRUE]
    ELSE [files |-> [g \in {"All Notes"} |-> [i \in 1..Len(notes) |-> notes[i].title]],
          raised |-> FALSE]

(***************************************************************************)
(* enex_output.py: grouping, the note limit and the file names             *)
(***************************************************************************)
\* Python's None where a str is expected
NoneValue == [type |-> "none"]

\* the characters _format_filename keeps: c.isalnum() or c in " -_."
\* (ASCII names)
FilenameChars == NameChars \cup {" ", "."}

\* scanner.Note(file_path, relative_path).to_dict() for a note of the
\* source directory "/v": the fields ENEXOutput reads
NoteToDict(relative_path) ==
    LET k == RFind(relative_path, "/")
        folder_path == IF k = 0 THEN "" ELSE Before(relative_path, k)
    IN [ file_path     |-> "/v/" \o relative_path,
         relative_path |-> relative_path,
         folder_path   |-> folder_path,
         enex_filename |-> IF folder_path = "" THEN "root.enex"
                           ELSE Replace(folder_path, "/", "_") \o ".enex" ]

\* ENEXOutput._format_filename(name) for a str name
FormatFilename(name, output_options) ==
    LET RECURSIVE Kept(_)
        Kept(i) == IF i > Len(name) THEN ""
                   ELSE (IF Ch(name, i) \in FilenameChars THEN Ch(name, i) ELSE "")
                        \o Kept(i + 1)
        stripped == Strip(Kept(1))
        safe_name == IF output_options.replace_spaces THEN Replace(stripped, " ", "_")
                     ELSE stripped
        filename == Replace(output_options.naming_pattern, "{name}", safe_name)
    IN IF Contains(output_options.naming_pattern, "{name}")
       THEN (IF EndsWith(Lower(filename), ".enex") THEN filename ELSE filename \o ".enex")
       ELSE safe_name \o ".enex"

\* ENEXOutput._group_notes(notes, note_info) for a list note_info: the
\* groups in the order of first insertion, each a name (a str, or None)
\* and its notes
GroupNotes(notes, note_info, group_by) ==
    LET single == << [name |-> Str("All Notes"), notes |-> notes] >>
        in_map(i) == \E j \in 1..Len(note_info) :
                        j <= Len(notes) /\ note_info[j].file_path = note_info[i].file_path
        note_map(i) == notes[SetMax({j \in 1..Len(note_info) :
                          j <= Len(notes) /\ note_info[j].file_path = note_info[i].file_path})]
        parts(i) == Split(note_info[i].relative_path, "/")
        GroupName(i) ==
            CASE group_by = "top_folder" ->
                     IF Len(parts(i)) > 1 THEN Str(parts(i)[1]) ELSE Str("Root")
              [] group_by = "full_folder" -> Str(note_info[i].folder_path)
              [] group_by = "notebook" -> Get(note_map(i), "notebook", Str("Default"))
              [] group_by = "custom" ->
                     IF EndsWith(Lower(note_info[i].enex_filename), ".enex")
                     THEN Str(Before(note_info[i].enex_filename,
                                     Len(note_info[i].enex_filename) - 4))
                     ELSE Str(note_info[i].enex_filename)
        Add(groups, name, note) ==
            IF \E g \in 1..Len(groups) : groups[g].name = name
            THEN [g \in 1..Len(groups) |->
                     IF groups[g].name = name
                     THEN [groups[g] EXCEPT !.notes = Append(@, note)] ELSE groups[g]]
            ELSE Append(groups, [name |-> name, notes |-> <<note>>])
        RECURSIVE Go(_, _)
        Go(i, groups) ==
            IF i > Len(note_info) THEN groups
            ELSE IF in_map(i)
            THEN CHOOSE r \in {Go(i + 1, added) :
                               added \in {Add(groups, name, note_map(i)) :
                                              name \in {GroupName(i)}}} : TRUE
            ELSE Go(i + 1, groups)
        grouped_notes == IF group_by \in {"top_folder", "full_folder", "notebook", "custom"}
                         THEN Go(1, <<>>) ELSE <<>>
    IN IF group_by = "single" THEN single
       ELSE IF grouped_notes = <<>> THEN single
       ELSE grouped_notes

\* ENEXOutput._split_large_group: the calls of generate_enex_file it makes,
\* in order, each with the chunk's name, file name and notes.  group_name
\* is the str the f-string writes ("None" for None)
SplitLargeGroup_DropRemainder(group_name, notes, output_options) ==
    LET chunk_size == output_options.max_notes_per_file
        num_chunks == Len(notes) \div chunk_size
    IN [i \in 1..num_chunks |->
          [ name     |-> group_name \o " (Part " \o ToString(i) \o ")",
            filename |-> FormatFilename(group_name \o " (Part " \o ToString(i) \o ")",
                                        output_options),
            notes    |-> SubSeq(notes, (i - 1) * chunk_size + 1, i * chunk_size) ]]

SplitLargeGroup(group_name, notes, output_options) ==
    LET chunk_size == output_options.max_notes_per_file
        num_chunks == (Len(notes) + chunk_size - 1) \div chunk_size
        end_idx(i) == IF i * chunk_size < Len(notes) THEN i * chunk_size ELSE Len(notes)
    IN [i \in 1..num_chunks |->
          [ name     |-> group_name \o " (Part " \o ToString(i) \o ")",
            filename |-> FormatFilename(group_name \o " (Part " \o ToString(i) \o ")",
                                        output_options),
            notes    |-> SubSeq(notes, (i - 1) * chunk_size + 1, end_idx(i)) ]]

\* ENEXOutput.generate(notes, note_info): the calls of generate_enex_file
\* made (each tagged with the index of its group), the dict returned, and the
\* exception that ends the call ("" if it returns).  _format_filename(None)
\* raises TypeError outside the try; an exception of generate_enex_file
\* becomes ENEXOutputError
Generate(notes, note_info, output_options) ==
    LET WritesOf(group) ==
            LET display == IF group.name = NoneValue THEN "None" ELSE group.name.value
            IN IF output_options.max_notes_per_file > 0
                  /\ Len(group.notes) > output_options.max_notes_per_file
               THEN SplitLargeGroup(display, group.notes, output_options)
               ELSE IF group.name = NoneValue THEN <<>>
               ELSE << [ name     |-> group.name.value,
                         filename |-> FormatFilename(group.name.value, output_options),
                         notes    |-> group.notes ] >>
        Tagged(g, made) == [i \in 1..Len(made) |->
                              [ group |-> g, name |-> made[i].name,
                                filename |-> made[i].filename, notes |-> made[i].notes ]]
        Bad(made) == {i \in 1..Len(made) :
                        \E n \in 1..Len(made[i].notes) : GenerateNoteXmlRaises(made[i].notes[n])}
        \* the loop over the groups from the g-th on, writes being the calls made
        RECURSIVE Go(_, _, _)
        Go(grouped_notes, g, writes) ==
            IF g > Len(grouped_notes) THEN [writes |-> writes, raised |-> ""]
            ELSE CHOOSE r \in
                    { IF made = <<>> THEN [writes |-> writes, raised |-> "TypeError"]
                      ELSE CHOOSE q \in
                              { IF bad = {} THEN Go(grouped_notes, g + 1, all)
                                ELSE [ writes |-> SubSeq(all, 1, Len(writes)
                                          + (CHOOSE i \in bad : \A j \in bad : i <= j) - 1),
                                       raised |-> "ENEXOutputError" ] :
                                bad \in {Bad(made)}, all \in {writes \o Tagged(g, made)} } : TRUE :
                      made \in {WritesOf(grouped_notes[g])} } : TRUE
        Returned(done) ==
            [ writes       |-> done.writes,
              raised       |-> done.raised,
              output_files |->
                  IF done.raised # "" THEN EmptyMap
                  ELSE [name \in {done.writes[i].name : i \in 1..Len(done.writes)} |->
                          "out/" \o done.writes[SetMax({i \in 1..Len(done.writes) :
                                                           done.writes[i].name = name})].filename] ]
    IN CHOOSE r \in
          { Returned(done) :
            done \in {Go(grouped_notes, 1, <<>>) :
                         grouped_notes \in {GroupNotes(notes, note_info,
                                                       output_options.group_by)}} } : TRUE

\* the files of the output directory after the calls of generate_enex_file
\* in writes: a later call on the same path overwrites the file
WrittenFiles(writes) ==
    [f \in {writes[i].filename : i \in 1..Len(writes)} |->
        writes[SetMax({i \in 1..Len(writes) : writes[i].filename = f})].notes]

(***************************************************************************)
(* The worlds a run starts in                                              *)
(***************************************************************************)
FileChoices(loc) ==
    IF loc = Loc("src", RefX) THEN {NoFile, Bytes1, Bytes12}
    ELSE IF loc = Loc("src", RefDX) THEN {NoFile, Bytes1, Bytes2}
    ELSE IF loc = Loc("src", RefH) THEN {Bytes2}
    ELSE {NoFile, Bytes2}

FileSystems == {f \in [FsLocs -> {NoFile, Bytes1, Bytes2, Bytes12}] :
                    \A loc \in FsLocs : f[loc] \in FileChoices(loc)}

\* resource_options.max_resource_size, in bytes
MaxResourceSizes == {1, 2}

Configs == [ include_unknown_resources : BOOLEAN,
             max_resource_size : MaxResourceSizes,
             preserve_image_markdown : {FALSE} ]

(***************************************************************************)
(* SpecRes: a ResourceHandler whose process_resources is called on sets of *)
(* reference keys                                                          *)
(***************************************************************************)
HandlerRefs == {RefX, RefDX, RefH, RefM}

InitRes ==
    /\ fs \in FileSystems
    /\ cfg \in Configs
    /\ pc = "handler"
    /\ resource_refs = {}
    /\ resource_map = EmptyMap
    /\ reference_map = EmptyMap
    /\ resource_list = <<>>
    /\ content = "" /\ result = ""
    /\ image_registry = <<>> /\ image_references = {}
    /\ scan_result = <<>> /\ note_count = 0
    /\ processed_notes = <<>> /\ all_resources = {}
    /\ final_notes = <<>> /\ output_files = EmptyMap
    /\ exit_code = "running"

HandlerProcessResources ==
    /\ pc = "handler"
    /\ \E refs \in (SUBSET HandlerRefs) \ {{}} :
         \E order \in Orders(refs) :
            LET r == ProcessResources(order)
            IN /\ resource_refs' = refs
               /\ resource_map' = r.resource_map
               /\ reference_map' = r.reference_map
               /\ resource_list' = r.list
    /\ pc' = "handler_returned"
    /\ UNCHANGED <<fs, cfg, textVars, mainVars>>

NextRes == HandlerProcessResources

SpecRes == InitRes /\ [][NextRes]_vars

(***************************************************************************)
(* SpecFind: ResourceHandler._find_resource_path on one reference          *)
(***************************************************************************)
\* the references looked up: a bare filename, a relative path, an absolute
\* path, and a filename that is nowhere
FindRefs == {RefX, RefDX, "/r/x.png", RefM}

\* the places a file may lie at
FindLocs == { Loc("src", RefX), Loc("src", RefDX), Loc("cwd", RefX), Loc("cwd", RefDX),
              Loc("abs", "/r/x.png") }

InitFind ==
    /\ fs \in [FindLocs -> {NoFile, Bytes1}]
    /\ content \in FindRefs
    /\ pc = "find"
    /\ result = NoLoc
    /\ cfg = [source_directory |-> "src"]
    /\ resource_refs = {} /\ resource_map = EmptyMap
    /\ reference_map = EmptyMap /\ resource_list = <<>>
    /\ image_registry = <<>> /\ image_references = {}
    /\ scan_result = <<>> /\ note_count = 0
    /\ processed_notes = <<>> /\ all_resources = {}
    /\ final_notes = <<>> /\ output_files = EmptyMap
    /\ exit_code = "running"

FindResourcePathCall ==
    /\ pc = "find"
    /\ result' = FindResourcePath(content)
    /\ pc' = "found"
    /\ UNCHANGED <<fs, cfg, content, image_registry, image_references, resVars, mainVars>>

NextFind == FindResourcePathCall

SpecFind == InitFind /\ [][NextFind]_vars

(***************************************************************************)
(* SpecImg: process_image_references called on texts put together from     *)
(* image syntaxes and plain text                                           *)
(***************************************************************************)
ImageSegments ==
    { "t", "\n",
      "![a](x.png)", "![b](./x.png)", "![[d/x.png|100]]", "![](/r/y.png)",
      "![v](https://youtu.be/v)", "![u](http://h/i.png)", "![e]()", "![o](x.png" }

MaxSegments == 2

RECURSIVE Join(_)
Join(parts) == IF parts = <<>> THEN "" ELSE Head(parts) \o Join(Tail(parts))

ImageTexts ==
    {Join(parts) : parts \in UNION {[1..n -> ImageSegments] : n \in 1..MaxSegments}}

InitImg ==
    /\ fs = [loc \in FsLocs |-> NoFile]
    /\ cfg \in [ include_unknown_resources : {TRUE},
                 max_resource_size : {1},
                 preserve_image_markdown : BOOLEAN ]
    /\ pc = "img"
    /\ content \in ImageTexts
    /\ result = ""
    /\ image_registry = <<>> /\ image_references = {}
    /\ resource_refs = {} /\ resource_map = EmptyMap
    /\ reference_map = EmptyMap /\ resource_list = <<>>
    /\ scan_result = <<>> /\ note_count = 0
    /\ processed_notes = <<>> /\ all_resources = {}
    /\ final_notes = <<>> /\ output_files = EmptyMap
    /\ exit_code = "running"

\* process_image_references without lines 189-190: the registry and the
\* references of the processor are added to
ProcessImageReferencesCall_NoReset ==
    /\ pc = "img"
    /\ ImageCount(content, 1) <= MaxUuid
    /\ \E ids \in UuidDraws(ImageCount(content, 1)) :
          LET r == ProcessImageReferences(content, ids)
          IN /\ result' = r.text
             /\ image_registry' = image_registry \o r.image_registry
             /\ image_references' = image_references \cup r.image_references
    /\ pc' = "img_returned"
    /\ UNCHANGED <<fs, cfg, content, resVars, mainVars>>

\* process_image_references(content) on the processor: its registry and
\* references are made anew (lines 189-190) and filled
ProcessImageReferencesCall ==
    /\ pc = "img"
    /\ ImageCount(content, 1) <= MaxUuid
    /\ \E ids \in UuidDraws(ImageCount(content, 1)) :
          LET r == ProcessImageReferences(content, ids)
          IN /\ result' = r.text
             /\ image_registry' = r.image_registry
             /\ image_references' = r.image_references
    /\ pc' = "img_returned"
    /\ UNCHANGED <<fs, cfg, content, resVars, mainVars>>

MaxReuse == 1

\* the caller keeps what the processor returned for a text (get_image_registry
\* and get_resource_references return the processor's own objects) and
\* hands the same processor another text
ProcessAnother ==
    /\ pc = "img_returned"
    /\ note_count < MaxReuse
    /\ note_count' = note_count + 1
    /\ processed_notes' = Append(processed_notes,
                              [ content        |-> content,
                                result         |-> result,
                                image_registry |-> image_registry,
                                resources      |-> image_references ])
    /\ content' \in ImageSegments
    /\ pc' = "img"
    /\ UNCHANGED <<fs, cfg, result, image_registry, image_references, resVars,
                   scan_result, all_resources, final_notes, output_files, exit_code>>

NextImg ==
    \/ ProcessImageReferencesCall
    \/ ProcessAnother

SpecImg == InitImg /\ [][NextImg]_vars

(***************************************************************************)
(* SpecSan: process_html_to_enml called on HTML put together from text,    *)
(* script blocks (plain and assembled), tags with attributes, image        *)
(* markers and rules, with a registry of two images of which one file may  *)
(* exist                                                                   *)
(***************************************************************************)
ScriptText == "alert"

HtmlItems ==
    { "t",
      "<script>alert</script>",
      "<scr<script></script>ipt>alert</scr<script></script>ipt>",
      "<scr<script>ipt>alert</scr<script>ipt>",
      "<style>s</style>",
      "<scr<style></style>ipt>alert</script>",
      "<video>v</video>",
      "<a id='i' onclick=\"f\" href=\"h\">k</a>",
      "<b ID=\"i\">k</b>",
      "<p>" \o MarkerOpen \o "IMG_00000001" \o MarkerClose \o "</p>",
      MarkerOpen \o "IMG_00000002" \o MarkerClose,
      MarkerOpen \o "IMG_00000009" \o MarkerClose,
      "<p>---</p>",
      "<p>---</p>" \o MarkerOpen \o "IMG_00000001" \o MarkerClose,
      "<p>t</p><p>---</p><p>k</p>" }

MaxItems == 2

HtmlTexts ==
    {Join(parts) : parts \in UNION {[1..n -> HtmlItems] : n \in 1..MaxItems}}

\* the image registry handed to the ENMLProcessor: the second image is
\* referenced by a path that is no key of the resource references
SanRegistry ==
    << [path |-> RefX, alt_text |-> "a", marker_id |-> "IMG_00000001", position |-> 0],
       [path |-> RefDX, alt_text |-> "", marker_id |-> "IMG_00000002", position |-> 0] >>

InitSan ==
    /\ fs \in {f \in [FsLocs -> {NoFile, Bytes1}] :
                  \A loc \in FsLocs : loc # Loc("src", RefX) => f[loc] = NoFile}
    /\ cfg \in [ include_unknown_resources : {TRUE},
                 max_resource_size : {1},
                 preserve_image_markdown : {FALSE} ]
    /\ pc = "san"
    /\ content \in HtmlTexts
    /\ result = ""
    /\ image_registry = SanRegistry /\ image_references = {}
    /\ resource_refs = {RefX} /\ resource_map = EmptyMap
    /\ reference_map = EmptyMap /\ resource_list = <<>>
    /\ scan_result = <<>> /\ note_count = 0
    /\ processed_notes = <<>> /\ all_resources = {}
    /\ final_notes = <<>> /\ output_files = EmptyMap
    /\ exit_code = "running"

\* _clean_html alone, as the tests call it
CleanHtmlCall ==
    /\ pc = "san"
    /\ \E elements \in Orders(ProhibitedElements), attributes \in Orders(ProhibitedAttributes) :
          result' = CleanHtml(content, elements, attributes)
    /\ pc' = "cleaned"
    /\ UNCHANGED <<fs, cfg, content, image_registry, image_references, resVars, mainVars>>

\* process_html_to_enml: the ENML and list(resource_map.values())
ProcessHtmlToEnmlCall ==
    /\ pc = "san"
    /\ \E elements \in Orders(ProhibitedElements), attributes \in Orders(ProhibitedAttributes),
          order \in Orders(resource_refs) :
          /\ result' = ProcessHtmlToEnml(content, order, image_registry, elements, attributes)
          /\ \E rm \in {PrepareResources(order, 1, [map |-> EmptyMap, keys |-> <<>>])} :
                resource_list' = [i \in 1..Len(rm.keys) |-> rm.map[rm.keys[i]]]
    /\ pc' = "enml"
    /\ UNCHANGED <<fs, cfg, content, image_registry, image_references, resource_refs,
                   resource_map, reference_map, mainVars>>

NextSan == CleanHtmlCall \/ ProcessHtmlToEnmlCall

SpecSan == InitSan /\ [][NextSan]_vars

(***************************************************************************)
(* SpecText: the functions from text to text, each called on the texts     *)
(* made for it                                                             *)
(***************************************************************************)
\* lines a note can begin with: delimiters, key: value lines, text
(***************************************************************************)
(* html_converter.py: the "basic" engine                                   *)
(***************************************************************************)
\* HTMLConverter.convert_to_html with markdown_engine "basic" and without
\* create_full_document, on text that holds no "[[image:", "[[link:", "*",
\* "|" and no entity (the custom converters and _convert_basic_formatting
\* leave such HTML as it is)
ConvertToHtmlBasic(processed_markdown) ==
    LET Placeholder == "<!-- empty-line-placeholder -->"
        \* _mark_empty_lines
        MarkEmptyLines(text) ==
            CHOOSE marked \in
               { JoinLines([i \in 1..Len(lines) |->
                               IF Strip(lines[i]) = "" THEN Placeholder ELSE lines[i]]) :
                   lines \in {Split(text, "\n")} } : TRUE
        \* _process_text_with_lists: an empty line is put before a list item
        \* that follows a line that is not one
        IsItem(line) ==
            \/ StartsWithAt(line, SkipSpace(line, 1), "- ")
            \/ StartsWithAt(line, SkipSpace(line, 1), "* ")
        ProcessTextWithLists(text) ==
            CHOOSE listed \in
               { JoinLines([i \in 1..Len(lines) |->
                               IF /\ i > 1
                                  /\ IsItem(lines[i])
                                  /\ Strip(lines[i - 1]) # ""
                                  /\ ~IsItem(lines[i - 1])
                               THEN "\n" \o lines[i]
                               ELSE lines[i]]) :
                   lines \in {Split(text, "\n")} } : TRUE
        \* re.split(r'\n\s*\n', text)
        RECURSIVE Paragraphs(_)
        Paragraphs(text) ==
            LET hits == {i \in 1..Len(text) :
                            Ch(text, i) = "\n" /\ LineEndAfter(text, i + 1) # 0}
                first == CHOOSE i \in hits : \A j \in hits : i <= j
            IN IF hits = {} THEN <<text>>
               ELSE <<Before(text, first)>>
                    \o Paragraphs(From(text, LineEndAfter(text, first + 1) + 1))
        \* _basic_markdown_to_html
        BasicMarkdownToHtml(text) ==
            CHOOSE html \in
               { Join([i \in 1..Len(paragraphs) |->
                          "<p>" \o Replace(paragraphs[i], "\n", "<br>\n") \o "</p>"]) :
                   paragraphs \in {Paragraphs(Strip(text))} } : TRUE
    IN CHOOSE html \in
          { Replace(converted, Placeholder, "<div><br/></div>") :
              converted \in { BasicMarkdownToHtml(listed) :
                  listed \in { ProcessTextWithLists(marked) :
                      marked \in {MarkEmptyLines(processed_markdown)} } } } : TRUE

(***************************************************************************)
(* extract_code_blocks.py                                                  *)
(***************************************************************************)
\* extract_code_blocks: every fenced block (three backticks, the language up
\* to the line end, the content up to the next three backticks) is replaced
\* from left to right by its marker and a line end; hexes[k] is
\* uuid.uuid4().hex[:8] of the k-th match.  code_blocks is the dict in
\* insertion order.
ExtractCodeBlocks(markdown_content, hexes) ==
    LET RECURSIVE Go(_, _)
        Go(from, k) ==
            LET open == Find(markdown_content, Fence, from)
                line_end == IF open = 0 THEN 0 ELSE Find(markdown_content, "\n", open + 3)
                close == IF line_end = 0 THEN 0 ELSE Find(markdown_content, Fence, line_end + 1)
            IN IF close = 0 \/ k > Len(hexes)
               THEN [processed_content |-> From(markdown_content, from), code_blocks |-> <<>>]
               ELSE LET block_id == "CODE_BLOCK_" \o hexes[k]
                        rest == Go(close + 3, k + 1)
                    IN [ processed_content |->
                             SubSeq(markdown_content, from, open - 1) \o block_id \o "\n"
                             \o rest.processed_content,
                         code_blocks |->
                             <<[ block_id |-> block_id,
                                 language |-> Strip(SubSeq(markdown_content, open + 3, line_end - 1)),
                                 content  |-> SubSeq(markdown_content, line_end + 1, close - 1) ]>>
                             \o rest.code_blocks ]
    IN Go(1, 1)

\* restore_code_blocks
RestoreCodeBlocks(marked_content, code_blocks) ==
    LET RECURSIVE Go(_, _)
        Go(text, k) ==
            IF k > Len(code_blocks) THEN text
            ELSE LET escaped_content ==
                         Replace(Replace(Replace(Replace(Replace(code_blocks[k].content,
                             "&", "&amp;"), "<", "&lt;"), ">", "&gt;"), "*", "&#42;"), "_", "&#95;")
                     lines == Split(escaped_content, "\n")
                     wrapped_lines ==
                         [i \in 1..Len(lines) |->
                             IF i = Len(lines) /\ Strip(lines[i]) = "" /\ i > 1 THEN ""
                             ELSE IF Strip(lines[i]) = "" THEN "<div><br/></div>"
                             ELSE "<div>" \o lines[i] \o "</div>"]
                 IN Go(Replace(text, code_blocks[k].block_id, Join(wrapped_lines)), k + 1)
    IN Go(marked_content, 1)

FrontmatterSegments ==
    { "---\n", "--- \n", "---", "Title: X \n", "tags: a, b\n", "created: 2024-01-02\n",
      "t\n", "\n" }

MaxLines == 4

FrontmatterTexts ==
    {Join(parts) : parts \in UNION {[1..n -> FrontmatterSegments] : n \in 1..MaxLines}}

\* the lines of a code text: plain, empty, white space only, with the
\* characters restore_code_blocks escapes, with one and two backticks
CodeLines == {"a", "", "  ", "x<&y", "*_>", "&amp;", "~~"}

MaxCodeLines == 3

\* markdown of up to MaxLines lines: text, empty and white space only
\* lines, list items
BasicTexts ==
    { Join([i \in 1..Len(lines) |-> IF i = 1 THEN lines[i] ELSE "\n" \o lines[i]]) :
        lines \in UNION {[1..n -> {"P1", "P2", "", " ", "- b"}] : n \in 1..MaxLines} }

\* markdown with a fenced block of up to MaxCodeLines lines, with and
\* without a language, text around it and a second block
CodeTexts ==
    { before \o Fence \o language \o "\n" \o Join(code) \o Fence \o after :
        before \in {"", "t\n"}, language \in {"", "py"},
        code \in UNION {[1..n -> {line \o "\n" : line \in CodeLines}] : n \in 1..MaxCodeLines},
        after \in {"", "\nu", "\n" \o Fence \o "\nb\n" \o Fence} }

\* what stands inside a fenced block or an inline code span
CodeSamples == {"* a", "# h", "[[w|t]]", "==h==", "![a](x.png)", "[t](u)", "a<b", "p", "  x"}

\* the files process_markdown is given: a code sample in a fenced block or an
\* inline span, and bodies with and without a level-1 heading, with and
\* without frontmatter
MarkdownTexts ==
    UNION { { Fence \o "\n" \o c \o "\n" \o Fence,
              "t\n" \o Fence \o "py\n" \o c \o "\n" \o Fence \o "\nu",
              "t ~" \o c \o "~ u" } : c \in CodeSamples }
    \cup { f \o b : f \in {"", "---\ntitle: F\n---\n", "---\ntags: a\n---\n"},
                    b \in {"# T", "# T\nb", "b", "b\n# T", "## S\n# T", "#T"} }

InitText ==
    /\ fs = [loc \in FsLocs |-> NoFile]
    /\ cfg \in [ include_unknown_resources : {TRUE},
                 max_resource_size : {1},
                 preserve_image_markdown : {FALSE} ]
    /\ \/ pc = "frontmatter" /\ content \in FrontmatterTexts
       \/ pc = "code" /\ content \in CodeTexts
       \/ pc = "basic" /\ content \in BasicTexts
       \/ pc = "markdown" /\ content \in MarkdownTexts
    /\ result = ""
    /\ image_registry = <<>> /\ image_references = {}
    /\ resource_refs = {} /\ resource_map = EmptyMap
    /\ reference_map = EmptyMap /\ resource_list = <<>>
    /\ scan_result = <<>> /\ note_count = 0
    /\ processed_notes = <<>> /\ all_resources = {}
    /\ final_notes = <<>> /\ output_files = EmptyMap
    /\ exit_code = "running"

\* extract_frontmatter(content): the pair it returns
ExtractFrontmatterCall ==
    /\ pc = "frontmatter"
    /\ result' = ExtractFrontmatter(content)
    /\ pc' = "frontmatter_returned"
    /\ UNCHANGED <<fs, cfg, content, image_registry, image_references, resVars, mainVars>>

\* extract_code_blocks(content): the pair it returns
ExtractCodeBlocksCall ==
    /\ pc = "code"
    /\ \E n \in {Len(ExtractCodeBlocks(content, [k \in 1..MaxUuid |-> ""]).code_blocks)} :
          \E ids \in UuidDraws(n) :
             result' = ExtractCodeBlocks(content, [k \in 1..n |-> From(ids[k], 5)])
    /\ pc' = "code_extracted"
    /\ UNCHANGED <<fs, cfg, content, image_registry, image_references, resVars, mainVars>>

\* restore_code_blocks on the pair extract_code_blocks returned
RestoreCodeBlocksCall ==
    /\ pc = "code_extracted"
    /\ result' = RestoreCodeBlocks(result.processed_content, result.code_blocks)
    /\ pc' = "code_restored"
    /\ UNCHANGED <<fs, cfg, content, image_registry, image_references, resVars, mainVars>>

\* convert_markdown_to_html(content, config) with the "basic" engine
ConvertToHtmlCall ==
    /\ pc = "basic"
    /\ result' = ConvertToHtmlBasic(content)
    /\ pc' = "basic_returned"
    /\ UNCHANGED <<fs, cfg, content, image_registry, image_references, resVars, mainVars>>

\* process_markdown(content) of a new MarkdownProcessor: the pair returned,
\* with the processor's registry and references
ProcessMarkdownCall ==
    /\ pc = "markdown"
    /\ \E fm \in {ExtractFrontmatter(content)} :
          \E ids \in UuidDraws(ImageCount(BeforeImageReferences(fm.content), 1)) :
             \E md \in {ProcessMarkdownBody(fm, ids)} :
                /\ result' = [processed_markdown |-> md.processed_markdown,
                              frontmatter |-> md.frontmatter]
                /\ image_registry' = md.image_registry
                /\ image_references' = md.resources
    /\ pc' = "markdown_returned"
    /\ UNCHANGED <<fs, cfg, content, resVars, mainVars>>

NextText ==
    \/ ExtractFrontmatterCall
    \/ ExtractCodeBlocksCall
    \/ RestoreCodeBlocksCall
    \/ ConvertToHtmlCall
    \/ ProcessMarkdownCall

SpecText == InitText /\ [][NextText]_vars

(***************************************************************************)
(* SpecMain: one run of main over scanned notes                            *)
(***************************************************************************)
RefN == "n.png"

\* the note files: content, whether open/read succeeds, and whether
\* convert_markdown_to_html raises on it
NoteShapes ==
    { [file |-> "![a](x.png)", readable |-> TRUE, html_raises |-> FALSE],
      [file |-> "![[d/x.png]] ![b](m.png)", readable |-> TRUE, html_raises |-> FALSE],
      [file |-> "![h](p.heic)", readable |-> TRUE, html_raises |-> FALSE],
      [file |-> "t ![a](m.png) ![](n.png)", readable |-> TRUE, html_raises |-> FALSE],
      [file |-> "---\ncreated: soon\n---\n![a](x.png)", readable |-> TRUE,
       html_raises |-> FALSE],
      [file |-> "---\nupdated: 2024-01-02\ndate: soon\n---\nt", readable |-> TRUE,
       html_raises |-> FALSE],
      [file |-> "---\ntitle: F\ntags: a, b\ncreated: 2024-01-02\n---\ntags: c",
       readable |-> TRUE, html_raises |-> FALSE],
      [file |-> "---\ncreated: 2024-01-02\n---\ncreated: 2023-05-06", readable |-> TRUE,
       html_raises |-> FALSE],
      [file |-> "---\nupdated: 2024-01-03\n---\nupdated: 2023-05-06", readable |-> TRUE,
       html_raises |-> FALSE],
      [file |-> "tags: c, d", readable |-> TRUE, html_raises |-> FALSE],
      [file |-> "", readable |-> FALSE, html_raises |-> FALSE],
      [file |-> "![a](x.png)", readable |-> TRUE, html_raises |-> TRUE] }

MaxNotes == 2

\* the i-th entry of scan_result['notes'] for a file of the given shape
NoteInfo(i, shape) ==
    [ file_path   |-> "n" \o ToString(i) \o ".md",
      folder_path |-> "",
      file        |-> shape.file,
      readable    |-> shape.readable,
      html_raises |-> shape.html_raises ]

ScanResults ==
    UNION { { [i \in 1..n |-> NoteInfo(i, shapes[i])] : shapes \in [1..n -> NoteShapes] } :
            n \in 1..MaxNotes }

MainFileSystems ==
    {f \in FileSystems : /\ f[Loc("src", RefX)] # NoFile
                         /\ f[Loc("src", RefDX)] # Bytes2
                         /\ f[Loc("cwd", RefX)] = NoFile}

InitMain ==
    /\ fs \in MainFileSystems
    /\ cfg \in [ include_unknown_resources : BOOLEAN,
                 max_resource_size : {1},
                 preserve_image_markdown : {FALSE} ]
    /\ pc = "main_loop"
    /\ scan_result \in ScanResults
    /\ note_count = 0
    /\ processed_notes = <<>> /\ all_resources = {}
    /\ final_notes = <<>> /\ output_files = EmptyMap
    /\ exit_code = "running"
    /\ content = "" /\ result = ""
    /\ image_registry = <<>> /\ image_references = {}
    /\ resource_refs = {} /\ resource_map = EmptyMap
    /\ reference_map = EmptyMap /\ resource_list = <<>>

\* one pass of the loop over scan_result['notes']: the marker ids are drawn
\* (a note of more than MaxUuid images is not modelled) and the note's
\* references are iterated in some order
ProcessNote ==
    /\ pc = "main_loop"
    /\ note_count < Len(scan_result)
    /\ \E fm \in {ExtractFrontmatter(scan_result[note_count + 1].file)} :
         \E ids \in UuidDraws(ImageCount(BeforeImageReferences(fm.content), 1)) :
            \E md \in {ProcessMarkdownBody(fm, ids)} :
               \E order \in Orders(md.resources) :
                  \E loop \in {LoopBody([ note_count      |-> note_count,
                                          all_resources   |-> all_resources,
                                          processed_notes |-> processed_notes ],
                                        scan_result[note_count + 1], md, order)} :
                     /\ note_count' = loop.note_count
                     /\ all_resources' = loop.all_resources
                     /\ processed_notes' = loop.processed_notes
    /\ UNCHANGED <<fs, cfg, pc, scan_result, final_notes, output_files, exit_code,
                   resVars, textVars>>

\* main lines 293-299: process_resources over all references, then the
\* lookup dict
MainProcessResources ==
    /\ pc = "main_loop"
    /\ note_count >= Len(scan_result)
    /\ \E order \in Orders(all_resources) :
          \E r \in {ProcessResources(order)} :
             /\ resource_list' = r.list
             /\ reference_map' = r.reference_map
             /\ resource_map' = MainResourceMap(r.list, 1, EmptyMap)
    /\ resource_refs' = all_resources
    /\ pc' = "main_build"
    /\ UNCHANGED <<fs, cfg, textVars, mainVars>>

\* one pass of the loop over processed_notes (lines 306-315)
BuildFinalNote ==
    /\ pc = "main_build"
    /\ Len(final_notes) < Len(processed_notes)
    /\ LET p == processed_notes[Len(final_notes) + 1]
       IN \E order \in Orders(p.resources) :
             final_notes' = Append(final_notes,
                 [p.note EXCEPT !.resources = NoteResourceObjects(order, 1, resource_map)])
    /\ UNCHANGED <<fs, cfg, pc, scan_result, note_count, processed_notes, all_resources,
                   output_files, exit_code, resVars, textVars>>

\* lines 323-337: generate_output, and sys.exit(1) on ENEXOutputError
MainGenerateOutput ==
    /\ pc = "main_build"
    /\ Len(final_notes) = Len(processed_notes)
    /\ \E out \in {GenerateOutput(final_notes)} :
          /\ output_files' = out.files
          /\ exit_code' = IF out.raised THEN "exit 1" ELSE "returned"
    /\ pc' = "main_done"
    /\ UNCHANGED <<fs, cfg, scan_result, note_count, processed_notes, all_resources,
                   final_notes, resVars, textVars>>

NextMain == ProcessNote \/ MainProcessResources \/ BuildFinalNote \/ MainGenerateOutput

SpecMain == InitMain /\ [][NextMain]_vars

(***************************************************************************)
(* SpecOut: ENEXOutput.generate on a list of notes and their note_info     *)
(***************************************************************************)
MaxOutNotes == 3

MaxPerFile == 2

\* where a note lies under the source directory, and its "notebook": the
\* folder and the notebook main gives it (None for a note of the source
\* directory itself), or no "notebook" key at all
OutNoteKinds ==
    { [folder |-> "", notebook |-> "absent"], [folder |-> "", notebook |-> "main"],
      [folder |-> "a", notebook |-> "main"], [folder |-> "a b", notebook |-> "main"],
      [folder |-> "a_b", notebook |-> "main"], [folder |-> "a/b", notebook |-> "main"] }

OutNote(i, kind) ==
    LET base == [ title |-> "n" \o ToString(i), created |-> DateTime("now"),
                  updated |-> DateTime("now") ]
    IN IF kind.notebook = "absent" THEN base
       ELSE [f \in DOMAIN base \cup {"notebook"} |->
               IF f # "notebook" THEN base[f]
               ELSE IF kind.folder = "" THEN NoneValue ELSE Str(kind.folder)]

OutNoteInfo(i, kind) ==
    NoteToDict((IF kind.folder = "" THEN "" ELSE kind.folder \o "/")
               \o "n" \o ToString(i) \o ".md")

OutputOptions ==
    [ group_by : {"single", "top_folder", "full_folder", "notebook", "custom"},
      max_notes_per_file : 0..MaxPerFile,
      naming_pattern : {"{name}.enex"},
      replace_spaces : {TRUE} ]

InitOut ==
    /\ pc = "out"
    /\ cfg \in OutputOptions
    /\ \E n \in 1..MaxOutNotes : \E kinds \in [1..n -> OutNoteKinds] :
          /\ final_notes = [i \in 1..n |-> OutNote(i, kinds[i])]
          /\ scan_result = [i \in 1..n |-> OutNoteInfo(i, kinds[i])]
    /\ fs = EmptyMap /\ output_files = EmptyMap
    /\ result = <<>> /\ exit_code = "running"
    /\ note_count = 0 /\ processed_notes = <<>> /\ all_resources = {}
    /\ content = "" /\ image_registry = <<>> /\ image_references = {}
    /\ resource_refs = {} /\ resource_map = EmptyMap
    /\ reference_map = EmptyMap /\ resource_list = <<>>

\* generate_output(final_notes, note_info_list, config): result keeps the
\* calls of generate_enex_file, fs the files of the output directory
GenerateCall ==
    /\ pc = "out"
    /\ \E out \in {Generate(final_notes, scan_result, cfg)} :
          /\ result' = out.writes
          /\ fs' = WrittenFiles(out.writes)
          /\ output_files' = out.output_files
          /\ exit_code' = IF out.raised = "" THEN "returned" ELSE out.raised
    /\ pc' = "out_done"
    /\ UNCHANGED <<cfg, scan_result, final_notes, note_count, processed_notes,
                   all_resources, content, image_registry, image_references, resVars>>

NextOut == GenerateCall

SpecOut == InitOut /\ [][NextOut]_vars

(***************************************************************************)
(* SpecNote: the conversion of one note from markdown to ENML, for notes     *)
(* with images of the same name in different folders, notes with URLs and    *)
(* notes with tags, and the <tag> lines of the XML of the note               *)
(***************************************************************************)

RefAX == "a/x.png"
RefBX == "b/x.png"

\* the note texts: two folders in either order, one folder alone, wiki form
FolderTexts == { "![p](a/x.png) ![q](b/x.png)", "![q](b/x.png) ![p](a/x.png)",
                 "![p](a/x.png)", "![[b/x.png]] t", "![r](x.png) ![[a/x.png]]" }

\* the note texts with URLs: bare, after "=", as a video image, beside an image
UrlTexts == { "see http://u.io/v", "x=http://u.io", "![v](https://youtu.be/v)",
              "![[https://youtu.be/v]] http://u.io", "![p](a/x.png) http://u.io" }

\* the note texts with tags: in the frontmatter without and with a comma, in
\* the body, in both, none, and with a date no format parses
TagTexts == { "---\ntags: work\n---\nb", "---\ntags: work, home\n---\nb",
              "tags: work", "---\ntags: work\n---\ntags: home", "b",
              "---\ntags: a, b\ncreated: soon\n---\nb" }

\* xml.sax.saxutils.escape(data)
SaxEscape(data) == Replace(Replace(Replace(data, "&", "&amp;"), ">", "&gt;"), "<", "&lt;")

\* ENEXGenerator._generate_note_xml, its loop "for tag in note.get('tags', [])":
\* the <tag> lines in the order written.  A list gives its items, a str its
\* characters.
NoteTagsXml(note) ==
    IF note.tags.type = "list"
    THEN [k \in 1..Len(note.tags.items) |->
             "<tag>" \o SaxEscape(note.tags.items[k]) \o "</tag>"]
    ELSE [k \in 1..Len(note.tags.value) |->
             "<tag>" \o SaxEscape(SubSeq(note.tags.value, k, k)) \o "</tag>"]

FolderLocs == { Loc("src", RefAX), Loc("src", RefBX), Loc("src", RefX) }

InitNote ==
    /\ fs \in [FolderLocs -> {NoFile, Bytes1, Bytes2}]
    /\ content \in FolderTexts \cup UrlTexts \cup TagTexts
    /\ pc = "note"
    /\ result = ""
    /\ cfg \in [ include_unknown_resources : {TRUE},
                 max_resource_size : {1},
                 preserve_image_markdown : {FALSE} ]
    /\ resource_refs = {} /\ resource_map = EmptyMap
    /\ reference_map = EmptyMap /\ resource_list = <<>>
    /\ image_registry = <<>> /\ image_references = {}
    /\ scan_result = << NoteInfo(1, [file |-> content, readable |-> TRUE,
                                     html_raises |-> FALSE]) >>
    /\ note_count = 0
    /\ processed_notes = <<>> /\ all_resources = {}
    /\ final_notes = <<>> /\ output_files = EmptyMap
    /\ exit_code = "running"

\* the conversion of one note in main: markdown, HTML, ENML
ConvertNote ==
    /\ pc = "note"
    /\ \E fm \in {ExtractFrontmatter(scan_result[1].file)} :
          \E ids \in UuidDraws(ImageCount(BeforeImageReferences(fm.content), 1)) :
             \E md \in {ProcessMarkdownBody(fm, ids)} :
                \E order \in Orders(md.resources) :
                   \E enml \in {ProcessHtmlToEnml(ConvertToHtml(md.processed_markdown),
                                    order, md.image_registry, <<"script", "style">>,
                                    <<"id", "onclick">>)} :
                      /\ result' = enml
                      /\ image_registry' = md.image_registry
                      /\ image_references' = md.resources
                      /\ processed_notes' =
                            << [ note |-> CreateNote(scan_result[1], md.frontmatter,
                                                     md.processed_markdown, enml),
                                 resources |-> md.resources,
                                 note_info |-> scan_result[1] ] >>
    /\ note_count' = 1
    /\ pc' = "note_done"
    /\ UNCHANGED <<fs, cfg, content, resVars, scan_result, all_resources, final_notes,
                   output_files, exit_code>>

\* generate_enex_file on the note: _generate_note_xml raises or writes the
\* XML of the note, of which the <tag> lines are kept
GenerateNoteXmlCall ==
    /\ pc = "note_done"
    /\ IF GenerateNoteXmlRaises(processed_notes[1].note)
       THEN exit_code' = "raised" /\ final_notes' = final_notes
       ELSE exit_code' = "written" /\ final_notes' = NoteTagsXml(processed_notes[1].note)
    /\ pc' = "xml_done"
    /\ UNCHANGED <<fs, cfg, content, result, image_registry, image_references, resVars,
                   scan_result, note_count, processed_notes, all_resources, output_files>>

NextNote == ConvertNote \/ GenerateNoteXmlCall

SpecNote == InitNote /\ [][NextNote]_vars

(***************************************************************************)
(* Claims on the resource resolver (SpecRes)                               *)
(***************************************************************************)
\* the records of the returned list that carry reference key k
RecordsOf(k) == {i \in 1..Len(resource_list) : resource_list[i].reference = k}

\* no search location of k holds a file
Unresolvable(k) ==
    \A i \in 1..Len(FindResourceCandidates(k)) : ~Exists(FindResourceCandidates(k)[i])

\* k resolves to a file larger than max_resource_size
Oversized(k) ==
    /\ ~Unresolvable(k)
    /\ Len(fs[FindResourcePath(k)]) > cfg.max_resource_size

\* C3: a key that no search location resolves yields, with
\* include_unknown_resources, exactly one record, which is a placeholder whose
\* hash is the MD5 of the placeholder bytes; without it, no record, and the
\* records of the other keys are what they are when the key is not passed.
C3_MissingResourcePolicy ==
    pc = "handler_returned" =>
        \A k \in resource_refs :
            Unresolvable(k) =>
                IF cfg.include_unknown_resources
                THEN /\ Cardinality(RecordsOf(k)) = 1
                     /\ \A i \in RecordsOf(k) :
                            /\ resource_list[i].placeholder = TRUE
                            /\ resource_list[i].hash = MD5(PlaceholderData)
                ELSE /\ RecordsOf(k) = {}
                     /\ k \notin DOMAIN resource_map
                     /\ \A o \in Orders(resource_refs \ {k}) :
                            /\ ProcessResources(o).resource_map = resource_map
                            /\ Range(ProcessResources(o).list) = Range(resource_list)

\* a missing key got its placeholder next to the record of a real file
C3_Witness ==
    /\ pc = "handler_returned"
    /\ cfg.include_unknown_resources
    /\ RefM \in resource_refs /\ Unresolvable(RefM)
    /\ RefM \in DOMAIN resource_map /\ resource_map[RefM].placeholder
    /\ \E k \in DOMAIN resource_map : ~resource_map[k].placeholder

\* C4: a file larger than max_resource_size is treated as a missing one: a
\* placeholder with include_unknown_resources, no record without it, and in
\* both cases no reference_map entry for the key.
C4_OversizedAsNotFound ==
    pc = "handler_returned" =>
        \A k \in resource_refs :
            Oversized(k) =>
                /\ IF cfg.include_unknown_resources
                   THEN k \in DOMAIN resource_map /\ resource_map[k].placeholder
                   ELSE k \notin DOMAIN resource_map
                /\ \A f \in DOMAIN reference_map : reference_map[f] # k

\* C5: every record's hash is the MD5 of the bytes its base64 data encodes,
\* those bytes are the whole file (or the placeholder bytes), and so equal
\* bytes give equal hashes whatever the filename or the reference key.
C5_HashOfEmbeddedBytes ==
    pc = "handler_returned" =>
        /\ \A i \in 1..Len(resource_list) :
              LET rec == resource_list[i]
              IN /\ rec.hash = MD5(B64Decode(rec.data))
                 /\ B64Decode(rec.data) =
                        IF rec.placeholder THEN PlaceholderData
                        ELSE fs[FindResourcePath(rec.reference)]
        /\ \A i, j \in 1..Len(resource_list) :
              B64Decode(resource_list[i].data) = B64Decode(resource_list[j].data)
                  => resource_list[i].hash = resource_list[j].hash

\* two files of identical bytes under different names and keys were embedded
C5_Witness ==
    /\ pc = "handler_returned"
    /\ \E i, j \in 1..Len(resource_list) :
          /\ resource_list[i].reference # resource_list[j].reference
          /\ resource_list[i].filename # resource_list[j].filename
          /\ ~resource_list[i].placeholder /\ ~resource_list[j].placeholder
          /\ resource_list[i].hash = resource_list[j].hash

(***************************************************************************)
(* Claims on the image references (SpecImg)                                *)
(***************************************************************************)
\* the indices of text at which a marker tag starts
MarkerPositions(text) == {p \in 1..Len(text) : StartsWithAt(text, p, MarkerOpen)}

\* the id the marker tag at p carries
MarkerIdAt(text, p) ==
    SubSeq(text, p + Len(MarkerOpen), Find(text, "\"", p + Len(MarkerOpen)) - 1)

\* C2: after process_image_references, every marker tag in the returned text
\* carries an id that exactly one ImageRef of the registry has, and the path of
\* every ImageRef of the registry is in the set get_resource_references returns.
C2_MarkersMatchRegistry ==
    pc = "img_returned" =>
        /\ \A p \in MarkerPositions(result) :
              Cardinality({i \in 1..Len(image_registry) :
                  image_registry[i].marker_id = MarkerIdAt(result, p)}) = 1
        /\ \A i \in 1..Len(image_registry) :
              image_registry[i].path \in image_references

\* two markers were emitted for two syntaxes that normalize to one path
C2_Witness ==
    /\ pc = "img_returned"
    /\ Cardinality(MarkerPositions(result)) = 2
    /\ Len(image_registry) = 2
    /\ image_registry[1].path = image_registry[2].path
    /\ image_registry[1].marker_id # image_registry[2].marker_id
    /\ image_references = {"x.png"}

C10_NoScriptSurvives ==
    (pc \in {"cleaned", "enml"} /\ Contains(content, "<script")) =>
        /\ ~Contains(result, "<script")
        /\ ~Contains(result, ScriptText)

\* the text between <en-note> and </en-note> of an ENML document
NoteBody(enml) == SubSeq(enml, Len(WrapEnNote("")) - 12, Len(enml) - 13)

\* the names of the elements whose opening or closing tags a text holds
ElementsOf(text) ==
    LET NameStart(p) == IF Ch(text, p + 1) = "/" THEN p + 2 ELSE p + 1
    IN {SubSeq(text, NameStart(p), SkipWhile(text, NameStart(p), NameChars) - 1) :
           p \in {q \in 1..Len(text) : /\ Ch(text, q) = "<"
                                       /\ Ch(text, NameStart(q)) \in NameChars}}

\* C11: every element inside <en-note> of what process_html_to_enml returns
\* is en-media or a member of PERMITTED_ELEMENTS: an element that is neither
\* permitted nor prohibited (video, a leftover en-media-marker) is gone.
\* Stated for HTML that holds no tag of a prohibited element.
C11_OnlyPermittedElements ==
    (pc = "enml" /\ \A element \in ProhibitedElements : ~Contains(content, "<" \o element)) =>
        ElementsOf(NoteBody(result)) \subseteq PermittedElements \cup {"en-media"}

\* the names of the attributes inside the tags of a text, in lower case
AttributesOf(text) ==
    LET InTag(p) == RFind(Before(text, p), "<") > RFind(Before(text, p), ">")
    IN {Lower(SubSeq(text, p, SkipWhile(text, p, NameChars) - 1)) :
           p \in {q \in 2..Len(text) : /\ IsSpace(Ch(text, q - 1))
                                       /\ Ch(text, q) \in NameChars
                                       /\ Ch(text, SkipWhile(text, q, NameChars)) = "="
                                       /\ InTag(q)}}

\* C12: in what _clean_html returns no tag carries a prohibited attribute,
\* whatever the quotes or the letter case of the attribute in the input, and
\* an attribute that is not prohibited (href) stays on its tag.
C12_NoProhibitedAttribute ==
    pc = "cleaned" =>
        /\ AttributesOf(result) \cap ProhibitedAttributes = {}
        /\ Contains(content, " href=\"h\"") => Contains(result, " href=\"h\"")

\* C13: the sanitizer is idempotent: process_html_to_enml called on the ENML
\* it returned returns the same text, and _clean_html followed by
\* _convert_to_evernote_format leaves the sanitized fragment between the
\* en-note tags as it is.
C13_SanitizerIdempotent ==
    pc = "enml" =>
        \A elements \in Orders(ProhibitedElements), attributes \in Orders(ProhibitedAttributes),
           order \in Orders(resource_refs) :
              /\ ProcessHtmlToEnml(result, order, image_registry, elements, attributes) = result
              /\ ConvertToEvernoteFormat(CleanHtml(NoteBody(result), elements, attributes))
                     = NoteBody(result)

\* the number of occurrences of lit in a text
Occurrences(text, lit) == Cardinality({p \in 1..Len(text) : StartsWithAt(text, p, lit)})

\* C14: every image marker of the HTML handed to process_html_to_enml is
\* replaced by one <en-media> element or by one visible text ("[Image not
\* found: ...]", "[Unknown image marker: ...]") that the ENML returned still
\* holds: no marker is left and none is dropped.  When the file is missing
\* the resource list returned holds no record.
C14_EveryMarkerHasOutcome ==
    pc = "enml" =>
        /\ ~Contains(result, "<en-media-marker")
        /\ Occurrences(content, MarkerOpen) =
               Occurrences(result, "<en-media ") + Occurrences(result, "[Image not found: ")
               + Occurrences(result, "[Unknown image marker: ")
        /\ fs[Loc("src", RefX)] = NoFile =>
               (resource_list = <<>> /\ ~Contains(result, "<en-media "))

(***************************************************************************)
(* Claims on the text functions (SpecText)                                 *)
(***************************************************************************)
\* The frontmatter block a text begins with, read line by line: an opening
\* line "---" at the very start and the first later line "---" (white space
\* may follow the dashes).  well_formed: there is such a pair; lines: the
\* lines between the two; body: the text after the closing line.
LeadingBlock(text) ==
    LET IsDelimiter(line) == StartsWith(line, "---") /\ Strip(From(line, 4)) = ""
        LineAt(p) == SubSeq(text, p, IF Find(text, "\n", p) = 0 THEN Len(text)
                                     ELSE Find(text, "\n", p) - 1)
        closes == {p \in 2..(Len(text) + 1) : Ch(text, p - 1) = "\n" /\ IsDelimiter(LineAt(p))}
        close == CHOOSE p \in closes : \A q \in closes : p <= q
    IN IF ~IsDelimiter(LineAt(1)) \/ closes = {}
       THEN [well_formed |-> FALSE, lines |-> <<>>, body |-> text]
       ELSE [ well_formed |-> TRUE,
              lines |-> IF close = Find(text, "\n", 1) + 1 THEN <<>>
                        ELSE Split(SubSeq(text, Find(text, "\n", 1) + 1, close - 2), "\n"),
              body  |-> IF Find(text, "\n", close) = 0 THEN ""
                        ELSE From(text, Find(text, "\n", close) + 1) ]

\* C15: extract_frontmatter returns for every text, and for a text that
\* does not begin with a well-formed block (so also for one whose only
\* "---" pair comes later) it returns the text unchanged with an empty map.
C15_NoBlockNoFrontmatter ==
    /\ pc = "frontmatter_returned" => DOMAIN result = {"content", "metadata"}
    /\ (pc = "frontmatter_returned" /\ ~LeadingBlock(content).well_formed) =>
           result = [content |-> content, metadata |-> EmptyMap]

\* a text with a "---" pair after its first line came back unchanged
C15_Witness ==
    /\ pc = "frontmatter_returned"
    /\ content = "t\n---\nTitle: X \n---\n"
    /\ result.content = content
    /\ result.metadata = EmptyMap

\* C16: for a text that begins with a well-formed block, extract_frontmatter
\* returns the text after the closing delimiter line as the body, and a map
\* that holds every "key: value" line of the block under the lower-cased
\* key with the trimmed value (for tags, keywords and categories with a
\* comma: the list of the trimmed items).
C16_BlockParsed ==
    (pc = "frontmatter_returned" /\ LeadingBlock(content).well_formed) =>
        /\ result.content = LeadingBlock(content).body
        /\ \A i \in 1..Len(LeadingBlock(content).lines) :
              LET line == LeadingBlock(content).lines[i]
                  key == Lower(Strip(Before(line, Find(line, ":", 1))))
                  value == Strip(From(line, Find(line, ":", 1) + 1))
                  items == Split(value, ",")
              IN Contains(line, ":") =>
                    /\ key \in DOMAIN result.metadata
                    /\ IF key \in {"tags", "keywords", "categories"} /\ Contains(value, ",")
                       THEN result.metadata[key] = List([k \in 1..Len(items) |-> Strip(items[k])])
                       ELSE result.metadata[key].value = value

\* The code of the first fenced block of a text, without the line end
\* before the closing fence
FencedCode(text) ==
    LET start == Find(text, "\n", Find(text, Fence, 1)) + 1
    IN SubSeq(text, start, Find(text, Fence, start) - 2)

\* A text with each of & < > * _ replaced by its entity, character by
\* character
RECURSIVE EscapedOnce(_)
EscapedOnce(text) ==
    IF text = "" THEN ""
    ELSE (CASE Ch(text, 1) = "&" -> "&amp;"
            [] Ch(text, 1) = "<" -> "&lt;"
            [] Ch(text, 1) = ">" -> "&gt;"
            [] Ch(text, 1) = "*" -> "&#42;"
            [] Ch(text, 1) = "_" -> "&#95;"
            [] OTHER -> Ch(text, 1)) \o EscapedOnce(From(text, 2))

\* C17: after extract_code_blocks and restore_code_blocks the output holds,
\* for the code T of a fenced block (T without three backticks), every line
\* of T in order, each with all its characters and with & < > * _ escaped
\* once; an empty line may be written as a line break.  White space only
\* lines and the last line are lines of T like the others.
C17_CodeRoundTrip ==
    pc = "code_restored" =>
        LET lines == Split(FencedCode(content), "\n")
        IN Contains(result,
               Join([i \in 1..Len(lines) |->
                        IF lines[i] = "" THEN "<div><br/></div>"
                        ELSE "<div>" \o EscapedOnce(lines[i]) \o "</div>"]))

\* C20: with the "basic" engine the HTML of a text without list items holds,
\* for every paragraph of the text (the lines between two blank lines, or
\* between a blank line and an end of the text), a block <p>...</p> of its
\* own with the lines of the paragraph and a line break between two lines.
C20_BasicParagraphs ==
    (pc = "basic_returned" /\ ~Contains(content, "- ")) =>
        LET lines == Split(content, "\n")
            Blank(i) == i < 1 \/ i > Len(lines) \/ Strip(lines[i]) = ""
        IN \A i \in 1..Len(lines) : \A j \in i..Len(lines) :
              (/\ Blank(i - 1) /\ Blank(j + 1)
               /\ \A k \in i..j : ~Blank(k))
              => Contains(result,
                     "<p>" \o Join([k \in 1..(j - i + 1) |->
                                      IF k = 1 THEN lines[i]
                                      ELSE "<br>\n" \o lines[i + k - 1]]) \o "</p>")

(***************************************************************************)
(* Claims on a whole run (SpecMain)                                        *)
(***************************************************************************)
\* where the <en-media> elements of an ENML text start
MediaPositions(text) == {p \in 1..Len(text) : StartsWithAt(text, p, "<en-media ")}

\* the value of an attribute of the element that starts at p
AttributeAt(text, p, name) ==
    LET a == Find(text, " " \o name \o "=\"", p) + Len(name) + 3
    IN SubSeq(text, a, Find(text, "\"", a) - 1)

\* the frontmatter of a scanned note as extract_frontmatter reads it
FrontmatterOf(note_info) == ExtractFrontmatter(note_info.file).metadata

\* the reference keys of the images of a scanned note
ReferencesOf(note_info) ==
    LET body == ExtractFrontmatter(note_info.file).content
    IN ProcessImageReferences(body, [i \in 1..ImageCount(body, 1) |->
                                        "IMG_0000000" \o ToString(i)]).image_references

\* the ENML of a scanned note, its references prepared in the given order
EnmlOf(note_info, order) ==
    LET body == ExtractFrontmatter(note_info.file).content
        img == ProcessImageReferences(body, [i \in 1..ImageCount(body, 1) |->
                                                "IMG_0000000" \o ToString(i)])
    IN ProcessHtmlToEnml(ConvertToHtml(img.text), order, img.image_registry,
                         <<"script", "style">>, <<"id", "onclick">>)

\* processing the note raises inside the try block of the loop
Raises(note_info) == ~note_info.readable \/ note_info.html_raises

NotRaises(note_info) == ~Raises(note_info)

\* C1: every <en-media> element of the ENML of an assembled note carries the
\* hash and the type of a resource record attached to that same note, in
\* every state of the file it refers to (present, missing, larger than
\* max_resource_size, found by its bare filename only).
C1_MediaMatchesAttachedRecord ==
    \A k \in 1..Len(final_notes) :
        \A p \in MediaPositions(final_notes[k].content) :
            \E i \in 1..Len(final_notes[k].resources) :
                /\ final_notes[k].resources[i].hash
                     = AttributeAt(final_notes[k].content, p, "hash")
                /\ final_notes[k].resources[i].mime
                     = AttributeAt(final_notes[k].content, p, "type")

\* C6: no two resource records attached to one assembled note have the same
\* hash, also when the note refers to two keys with the same bytes or to
\* two missing keys that both get the placeholder.
C6_OneRecordPerHash ==
    \A k \in 1..Len(final_notes) :
        \A i, j \in 1..Len(final_notes[k].resources) :
            final_notes[k].resources[i].hash = final_notes[k].resources[j].hash => i = j

\* C7: the resources attached to a note are exactly the globally processed
\* records whose reference key is in the note's own reference set, each
\* attached once; a record that only other notes refer to is not attached.
C7_OwnRecordsAttached ==
    \A k \in 1..Len(final_notes) :
        /\ Range(final_notes[k].resources)
             = {r \in Range(resource_list) : r.reference \in processed_notes[k].resources}
        /\ \A i, j \in 1..Len(final_notes[k].resources) :
              final_notes[k].resources[i] = final_notes[k].resources[j] => i = j

\* a run of two notes, one with a record of its own attached and the other's
\* record, which the run also processed, left off
C7_Witness ==
    /\ Len(final_notes) = 2
    /\ final_notes[1].resources # <<>>
    /\ \E r \in Range(resource_list) :
          /\ r \in Range(final_notes[2].resources)
          /\ r \notin Range(final_notes[1].resources)
          /\ r.reference \notin processed_notes[1].resources

\* C8: a note whose processing raises in the loop is the only one left out:
\* the notes passed so far that do not raise are the processed ones, in scan
\* order, each with the references and the ENML of its own file; the loop
\* ends only after the last scanned note; the final notes carry the records
\* of their own references; and the run does not exit before the output is
\* generated.
C8_OnlyRaisingNoteLeftOut ==
    LET kept == SelectSeq(SubSeq(scan_result, 1, note_count), NotRaises)
    IN /\ Len(processed_notes) = Len(kept)
       /\ \A k \in 1..Len(kept) :
             /\ processed_notes[k].note_info = kept[k]
             /\ processed_notes[k].resources = ReferencesOf(kept[k])
             /\ processed_notes[k].note.title
                   = Get(FrontmatterOf(kept[k]), "title", Str(PathStem(kept[k].file_path))).value
             /\ \E order \in Orders(ReferencesOf(kept[k])) :
                   processed_notes[k].note.content = EnmlOf(kept[k], order)
       /\ pc # "main_loop" => note_count = Len(scan_result)
       /\ \A k \in 1..Len(final_notes) :
             /\ final_notes[k].content = processed_notes[k].note.content
             /\ \A i \in 1..Len(final_notes[k].resources) :
                   final_notes[k].resources[i].reference \in ReferencesOf(kept[k])
       /\ pc = "main_done" => /\ Len(final_notes) = Len(kept)
                              /\ exit_code \in {"returned", "exit 1"}
       /\ pc # "main_done" => exit_code = "running"

\* a finished run in which the first note raised and the second was
\* assembled with a record of its own and written
C8_Witness ==
    /\ pc = "main_done"
    /\ Len(scan_result) = 2
    /\ Raises(scan_result[1])
    /\ Len(final_notes) = 1
    /\ final_notes[1].resources # <<>>
    /\ exit_code = "returned"
    /\ output_files["All Notes"] = <<"n2">>

\* C9: a frontmatter created, updated or date value that no format parses
\* is kept as a str and the conversion goes on: once the run has ended the
\* note is in the ENEX file written, and the run was not aborted.
C9_UnparsedDateKept ==
    \A k \in 1..Len(processed_notes) :
        LET frontmatter == FrontmatterOf(processed_notes[k].note_info)
        IN (\E key \in DateKeys \cap DOMAIN frontmatter : frontmatter[key].type = "str")
           => /\ processed_notes[k].note.created.type \in {"str", "datetime"}
              /\ pc = "main_done"
                   => /\ exit_code = "returned"
                      /\ "All Notes" \in DOMAIN output_files
                      /\ \E i \in 1..Len(output_files["All Notes"]) :
                            output_files["All Notes"][i] = processed_notes[k].note.title

\* C18: in every assembled note the title, the created and updated dates and
\* the tags are the frontmatter's where the frontmatter of the note's file
\* supplies the key, and otherwise the ones extract_note_metadata derives
\* from the file and the markdown (the file's times for the two dates).
C18_FrontmatterTakesPrecedence ==
    \A k \in 1..Len(processed_notes) :
        LET note == processed_notes[k].note
            frontmatter == FrontmatterOf(processed_notes[k].note_info)
            derived == ExtractNoteMetadata(processed_notes[k].note_info,
                           ExtractFrontmatter(processed_notes[k].note_info.file).content)
            Used(key, default) ==
                IF key \in DOMAIN frontmatter THEN frontmatter[key]
                ELSE IF key \in DOMAIN derived THEN derived[key] ELSE default
        IN /\ note.title = Used("title", Str("")).value
           /\ note.created.value = Used("created", derived["file_created"]).value
           /\ note.updated.value = Used("updated", derived["file_modified"]).value
           /\ note.tags = Used("tags", List(<<>>))

\* a note whose frontmatter gives a title and whose frontmatter and markdown
\* both give tags, different ones, was assembled with the frontmatter's
C18_Witness ==
    \E k \in 1..Len(processed_notes) :
        LET frontmatter == FrontmatterOf(processed_notes[k].note_info)
            derived == ExtractNoteMetadata(processed_notes[k].note_info,
                           ExtractFrontmatter(processed_notes[k].note_info.file).content)
        IN /\ "tags" \in DOMAIN frontmatter \cap DOMAIN derived
           /\ frontmatter["tags"] # derived["tags"]
           /\ processed_notes[k].note.tags = List(<<"a", "b">>)
           /\ processed_notes[k].note.title = "F"

(***************************************************************************)
(* Claims on the ENEX output (SpecOut)                                     *)
(***************************************************************************)
\* the calls of generate_enex_file made for group g, in order
WritesOfGroup(g) == SelectSeq(result, LAMBDA w : w.group = g)

\* the notes of a sequence of calls, one after the other
RECURSIVE NotesOfWrites(_)
NotesOfWrites(writes) ==
    IF writes = <<>> THEN <<>> ELSE Head(writes).notes \o NotesOfWrites(Tail(writes))

\* C21: when generate returns with max_notes_per_file = k > 0, a group of
\* n > k notes is written as ceil(n/k) files of distinct names, each of 1..k
\* notes, whose notes in part order are exactly the notes of the group in
\* their order; a group of n <= k notes is written as one file holding them
C21_ChunksPartitionGroup ==
    (pc = "out_done" /\ exit_code = "returned" /\ cfg.max_notes_per_file > 0) =>
        LET k == cfg.max_notes_per_file
            grouped_notes == GroupNotes(final_notes, scan_result, cfg.group_by)
        IN \A g \in 1..Len(grouped_notes) :
              LET n == Len(grouped_notes[g].notes)
                  chunks == WritesOfGroup(g)
              IN /\ NotesOfWrites(chunks) = grouped_notes[g].notes
                 /\ n <= k => Len(chunks) = 1
                 /\ n > k =>
                      /\ Len(chunks) * k >= n /\ (Len(chunks) - 1) * k < n
                      /\ \A i \in 1..Len(chunks) :
                            /\ Len(chunks[i].notes) \in 1..k
                            /\ \A j \in 1..Len(chunks) :
                                  chunks[i].filename = chunks[j].filename => i = j

\* three notes in one group and a limit of two: two files, of two notes and one
C21_Witness ==
    /\ pc = "out_done" /\ exit_code = "returned"
    /\ cfg.max_notes_per_file = 2 /\ cfg.group_by = "single"
    /\ Len(final_notes) = 3
    /\ Len(result) = 2
    /\ result[1].notes = SubSeq(final_notes, 1, 2) /\ result[2].notes = SubSeq(final_notes, 3, 3)
    /\ result[1].filename = "All_Notes_Part_1.enex"
    /\ result[2].filename = "All_Notes_Part_2.enex"

\* the places (file, position) of the output directory that hold the note
PlacesOf(note) ==
    {<<f, j>> \in (DOMAIN fs) \X (1..Len(final_notes)) : j <= Len(fs[f]) /\ fs[f][j] = note}

\* the names of the groups whose calls of generate_enex_file hold the note
GroupNamesOf(note) ==
    {result[w].name : w \in {v \in 1..Len(result) : note \in Range(result[v].notes)}}

\* C29: for every strategy generate returns; every note is in exactly one
\* file of the output directory, once; with no limit set, a note without a
\* notebook is in the group "Default" (strategy notebook) and a note of the
\* source directory itself in the group "Root" (strategies top_folder and
\* full_folder); two groups of different names are written to different files
C29_EachNoteInOneFile ==
    pc = "out_done" =>
        /\ exit_code = "returned"
        /\ \A i \in 1..Len(final_notes) : Cardinality(PlacesOf(final_notes[i])) = 1
        /\ \A i \in 1..Len(final_notes) :
              cfg.max_notes_per_file = 0 =>
                 /\ (cfg.group_by = "notebook"
                     /\ Get(final_notes[i], "notebook", NoneValue) = NoneValue)
                        => GroupNamesOf(final_notes[i]) = {"Default"}
                 /\ (cfg.group_by \in {"top_folder", "full_folder"}
                     /\ scan_result[i].folder_path = "")
                        => GroupNamesOf(final_notes[i]) = {"Root"}
        /\ \A v, w \in 1..Len(result) :
              result[v].name # result[w].name => result[v].filename # result[w].filename

CodeOf(text) ==
    IF Contains(text, Fence) THEN FencedCode(text)
    ELSE SubSeq(text, Find(text, "~", 1) + 1, Find(text, "~", Find(text, "~", 1) + 1) - 1)

\* C23: the text process_markdown returns for a file with a fenced block or
\* an inline code span holds the characters of the code as they were
\* written (or with & < > and quotes written as entities): no star-list,
\* wiki-link, highlight, heading, image or link pass has changed them
C23_CodeVerbatim ==
    (pc = "markdown_returned" /\ Contains(content, "~")) =>
        \/ Contains(result.processed_markdown, CodeOf(content))
        \/ Contains(result.processed_markdown, HandleSpecialCharacters(CodeOf(content)))

\* the title the first level-1 heading line of a body gives ("" if the body
\* has no such line)
FirstHeading(body) ==
    LET lines == Split(body, "\n")
        heads == {k \in 1..Len(lines) : StartsWith(lines[k], "# ")}
    IN IF heads = {} THEN ""
       ELSE Strip(From(lines[CHOOSE k \in heads : \A l \in heads : k <= l], 3))

\* C30: with the default options, the title main gives a note without a
\* frontmatter title, from what process_markdown returned for its file, is
\* its first level-1 heading, and the file stem only when the body has no
\* such heading
C30_TitleFromFirstHeading ==
    (pc = "markdown_returned" /\ ~Contains(content, "~")
     /\ "title" \notin DOMAIN result.frontmatter) =>
        LET heading == FirstHeading(ExtractFrontmatter(content).content)
            note_info == [file_path |-> "n1.md", folder_path |-> ""]
            metadata == NoteMetadata(note_info, result.frontmatter, result.processed_markdown)
        IN metadata["title"].value = IF heading = "" THEN PathStem(note_info.file_path)
                                     ELSE heading

(***************************************************************************)
(* Claims on images of the same name in different folders (SpecNote)        *)
(***************************************************************************)

\* the places of the outcomes of the images in an ENML text, an <en-media>
\* or a not-found marker each
OutcomePositions(text) ==
    MediaPositions(text)
        \cup {p \in 1..Len(text) : StartsWithAt(text, p, "<div>[Image not found: ")}

\* the place of the k-th outcome
OutcomeAt(text, k) ==
    CHOOSE p \in OutcomePositions(text) :
        Cardinality({q \in OutcomePositions(text) : q < p}) = k - 1

\* the k-th image of the note shows its own file or the not-found marker
OwnOutcome(text, k) ==
    LET own == Loc("src", image_registry[k].path)
        p == OutcomeAt(text, k)
    IN IF Exists(own)
       THEN /\ p \in MediaPositions(text)
            /\ AttributeAt(text, p, "hash") = MD5(fs[own])
       ELSE StartsWithAt(text, p,
                "<div>[Image not found: " \o image_registry[k].path \o "]</div>")

\* C24: images named alike in different folders keep distinct reference keys,
\* and in the ENML of the note each image's <en-media> carries the hash of its
\* own file, or the not-found marker stands in its place when its own file is
\* missing, never the hash of the file of the other folder.
C24_SameNameNoCollision ==
    pc = "note_done" =>
        /\ \A i, j \in 1..Len(image_registry) :
              i # j => image_registry[i].path # image_registry[j].path
        /\ Cardinality(OutcomePositions(result)) = Len(image_registry)
        /\ \A k \in 1..Len(image_registry) : OwnOutcome(result, k)

\* the places where an anchor opens
AnchorStarts(text) == {p \in 1..Len(text) : StartsWithAt(text, p, "<a ")}

\* the anchors that open inside an anchor not yet closed
NestedAnchors(text) ==
    {q \in AnchorStarts(text) :
        \E p \in AnchorStarts(text) : p < q /\ q < Find(text, "</a>", p)}

\* the places where a URL is written
UrlStarts(text) ==
    {p \in 1..Len(text) : StartsWithAt(text, p, "http://") \/ StartsWithAt(text, p, "https://")}

\* C25: the auto-linking wraps a bare URL in an anchor with rev="en_rl_none"
\* only when the URL is not already inside an anchor or an attribute value:
\* every URL of the ENML is the value of an href or the text of exactly one
\* anchor, and no anchor lies inside another anchor.
C25_NoNestedAnchor ==
    pc = "note_done" =>
        /\ NestedAnchors(result) = {}
        /\ \A p \in UrlStarts(result) :
              \/ Ch(result, p - 1) \in {"=", "\"", "/"}
              \/ Ch(result, p - 1) = ">" /\ \E q \in AnchorStarts(result) :
                                               Find(result, ">", q) = p - 1

\* C26: the cleanup of leaked frontmatter in the sanitizer strips only a block
\* that starts at the beginning of the note: in a note that does not begin
\* with a line of dashes, a paragraph that lies between two such lines later
\* in the document is still in the ENML.
C26_OnlyLeadingBlockStripped ==
    (pc = "enml" /\ ~StartsWith(content, "<p>---</p>")) =>
        Occurrences(result, "<div>k</div>") = Occurrences(content, "<p>k</p>")

(***************************************************************************)
(* Claims on the outcome of every image (SpecImg)                           *)
(***************************************************************************)

\* the matches of the image pattern in a text from an index, in order
RECURSIVE ImageMatches(_, _)
ImageMatches(s, from) ==
    LET m == NextImageMatch(s, from)
    IN IF m.start = 0 THEN <<>> ELSE <<m>> \o ImageMatches(s, m.stop + 1)

\* what an image path leads to: a marker, a plain link or a not-found text
OutcomeKind(path) ==
    IF NormalizeResourcePath(path).is_none THEN "link"
    ELSE IF NormalizeResourcePath(path).path # "" THEN "marker"
    ELSE "not_found"

\* the text expected for the matches ms of text from the k-th on, the images
\* before it having taken the first taken entries of the registry
RECURSIVE ExpectedFrom(_, _, _, _, _)
ExpectedFrom(text, ms, k, taken, registry) ==
    IF k > Len(ms)
    THEN [text |-> IF ms = <<>> THEN text ELSE From(text, ms[Len(ms)].stop + 1),
          taken |-> taken]
    ELSE LET m == ms[k]
             kind == OutcomeKind(m.path)
             between == SubSeq(text, IF k = 1 THEN 1 ELSE ms[k - 1].stop + 1, m.start - 1)
             outcome ==
                 IF kind = "link"
                 THEN "<a href=\"" \o m.path \o "\">" \o m.path \o "</a>"
                 ELSE IF kind = "not_found"
                 THEN "[Image not found: <a href=\"" \o m.path \o "\">" \o m.path \o "</a>]"
                 ELSE IF taken >= Len(registry) THEN "(no registry entry)"
                 ELSE IF cfg.preserve_image_markdown THEN SubSeq(text, m.start, m.stop)
                 ELSE MarkerOpen \o registry[taken + 1].marker_id \o MarkerClose
             rest == ExpectedFrom(text, ms, k + 1,
                                  IF kind = "marker" THEN taken + 1 ELSE taken, registry)
         IN [text |-> between \o outcome \o rest.text, taken |-> rest.taken]

TagNamesWritten(text) ==
    CHOOSE names \in
       {[k \in 1..Len(parts) |-> Strip(parts[k])] :
        parts \in {Split(SubSeq(text, 10, Find(text, "\n", 10) - 1), ",")}} : TRUE

\* C28: the tags of a note are whole tag names all the way to the ENEX
\* output: for a frontmatter tags value with or without a comma, the XML of
\* the note holds exactly one <tag> element per tag name written, with the
\* name in it.
C28_OneTagPerName ==
    (pc = "xml_done" /\ StartsWith(content, "---\ntags:")) =>
        /\ exit_code = "written"
        /\ final_notes = [k \in 1..Len(TagNamesWritten(content)) |->
                             "<tag>" \o TagNamesWritten(content)[k] \o "</tag>"]

=============================================================================
